---- MODULE Spec2Model ----
(***************************************************************************)
(* Model of the retrieval-augmented answering engine of bdt_ai_agent_cs:   *)
(* the embedding store (core/services/embedding_service.py), the model     *)
(* signals that drive it (core/models/signals.py) and the chat response    *)
(* composer (core/services/chat_service.py).                               *)
(*                                                                         *)
(* Request workers (threads) run the operations of the program one         *)
(* database statement, file-system operation or upstream API call at a     *)
(* time; each worker holds its own in-memory model instance, as a Django   *)
(* request does.                                                           *)
(***************************************************************************)
EXTENDS Integers, Sequences, FiniteSets, TLC

(***************************************************************************)
(* Bounds of the model.                                                    *)
(***************************************************************************)
\* number of KnowledgeBase primary keys that can be allocated
MaxItems == 1
\* number of operations (requests) started in one run
MaxOps == 3
\* number of operations started in one run in which a chat session exists
MaxChatOps == 2
\* iteration budget of the chunk_text loop
MaxChunkIter == 8

(***************************************************************************)
(* EmbeddingService.__init__: chunk size and overlap, scaled from the      *)
(* program's 1000/200 characters to texts of a dozen characters.           *)
(***************************************************************************)
ChunkSize == 8
ChunkOverlap == 2
\* the look-back cap of chunk_text, range(min(100, chunk_size // 4))
LookBackCap == 100
\* find_relevant_knowledge returns relevant_chunks[:5]
TopK == 5
\* similarity_threshold=0.4, as the fraction ThresholdNum / ThresholdDen
ThresholdNum == 4
ThresholdDen == 10

Threads == {"t1", "t2"}
Assistants == {"a1", "a2"}
\* the assistants that are given knowledge-base items
KbOwners == {"a1"}
Pks == 1..MaxItems

None == "None"

Min(a, b) == IF a <= b THEN a ELSE b
Max(a, b) == IF a >= b THEN a ELSE b

(***************************************************************************)
(* Texts are sequences of characters.                                      *)
(***************************************************************************)
TextA == <<"a", "b", ".", "c", "d", "e", "f", "g", "h", "i">>
TextB == <<"x", "y", ".">>
TextC == <<"p", "q", "r", " ", "s", "t", ".", " ", "u", "v", "w">>
TextBlank == <<" ">>
TextEmpty == <<>>
\* f"Unsupported file type: {file_extension}"
UnsupportedSentinel == <<"U", "n", "s">>
\* f"Error processing file: {file_path.name}"
ErrorSentinel == <<"E", "r", "r">>

IsSpace(c) == c = " "

\* text[a:b] of Python, 0-based, end exclusive, clamped to the text
Slice(text, a, b) == SubSeq(text, a + 1, Min(b, Len(text)))

RECURSIVE LStrip(_)
LStrip(s) == IF s # <<>> /\ IsSpace(Head(s)) THEN LStrip(Tail(s)) ELSE s

RECURSIVE RStrip(_)
RStrip(s) ==
    IF s # <<>> /\ IsSpace(s[Len(s)]) THEN RStrip(SubSeq(s, 1, Len(s) - 1)) ELSE s

\* str.strip()
Strip(s) == RStrip(LStrip(s))

(***************************************************************************)
(* EmbeddingService.chunk_text                                             *)
(***************************************************************************)
\* the for loop of lines 40-43: the first i in range(n) with a sentence end
\* before end - i, or end itself when there is none
RECURSIVE SnapEnd(_, _, _, _, _)
SnapEnd(text, start, end, i, n) ==
    IF i >= n THEN end
    ELSE IF end - i > start /\ text[end - i] \in {".", "!", "?"} THEN end - i
    ELSE SnapEnd(text, start, end, i + 1, n)

\* variant: the window is one character wider
WindowEnd_Wide(text, start, size) == start + size + 1

\* one iteration of the while loop: the (possibly snapped) window end
WindowEnd(text, start, size) ==
    LET end == start + size
    IN  IF end < Len(text)
        THEN SnapEnd(text, start, end, 0, Min(LookBackCap, size \div 4))
        ELSE end

RECURSIVE ChunkLoop(_, _, _, _, _, _)
ChunkLoop(text, size, overlap, start, chunks, fuel) ==
    IF fuel = 0 \/ ~(start < Len(text)) THEN chunks
    ELSE LET end == WindowEnd(text, start, size)
             chunk == Strip(Slice(text, start, end))
             out == IF chunk # <<>> THEN Append(chunks, chunk) ELSE chunks
             next == end - overlap
         IN  IF next >= Len(text) THEN out
             ELSE ChunkLoop(text, size, overlap, next, out, fuel - 1)

chunk_text(text, size, overlap) ==
    IF Len(text) <= size THEN <<text>>
    ELSE ChunkLoop(text, size, overlap, 0, <<>>, MaxChunkIter)


(***************************************************************************)
(* Embedding vectors and cosine similarity.  The upstream embedding API    *)
(* is an external service: each call returns some vector or fails.         *)
(***************************************************************************)
\* the vector the embedding model gives a chunk of text: a fixed function of
\* the text (one model, one embedding space)
EmbeddingOf(text) == IF Head(text) \in {"a", "t", "U"} THEN <<1, 0>> ELSE <<0, 1>>
QueryVecs == {<<1, 0>>, <<1, 1>>}
\* generate_embeddings returns None when the API call raised
NoVec == <<>>

Dot(a, b) == a[1] * b[1] + a[2] * b[2]
Abs(n) == IF n < 0 THEN -n ELSE n

\* cosine_similarity, kept exact as the signed square of the cosine,
\* num / den = sign(dot) * dot^2 / (|a|^2 * |b|^2); 0 when a magnitude is 0
cosine_similarity(a, b) ==
    IF Dot(a, a) = 0 \/ Dot(b, b) = 0 THEN [num |-> 0, den |-> 1]
    ELSE [num |-> Dot(a, b) * Abs(Dot(a, b)), den |-> Dot(a, a) * Dot(b, b)]

\* s1 >= s2 on similarities
SimGE(s1, s2) == s1.num * s2.den >= s2.num * s1.den

\* similarity >= similarity_threshold (0.4, squared on both sides)
AboveThreshold(s) ==
    s.num * ThresholdDen * ThresholdDen >= ThresholdNum * ThresholdNum * s.den

(***************************************************************************)
(* Text extraction: extract_text_content / extract_file_content.           *)
(* An uploaded file is a record [kind, text]; kind "txt" decodes to its    *)
(* text, "bad" is a file whose reading raises, "zip" an unsupported type.  *)
(***************************************************************************)
NoUpload == [kind |-> "none", text |-> TextEmpty]
Uploads == {[kind |-> "txt", text |-> TextB],
            [kind |-> "zip", text |-> TextB],
            [kind |-> "bad", text |-> TextB]}

extract_file_content(f) ==
    CASE f.kind = "txt" -> f.text
      [] f.kind = "bad" -> ErrorSentinel
      [] OTHER -> UnsupportedSentinel

extract_text_content(item) ==
    IF item.content # TextEmpty THEN item.content
    ELSE IF item.file # NoUpload THEN extract_file_content(item.file)
    ELSE TextEmpty

\* _generate_content_hash: the MD5 digest of the extracted text; distinct
\* texts have distinct digests
_generate_content_hash(item) == <<"md5", extract_text_content(item)>>

(***************************************************************************)
(* State.                                                                  *)
(***************************************************************************)
VARIABLES
    db,        \* KnowledgeBase table: pk -> row, or NoRow
    nextPk,    \* next primary key to allocate
    emb,       \* embedding files on disk: pk (the path of the item) -> file, or NoFile
    upl,       \* uploaded source files on disk: pk -> does the file exist
    thr,       \* per request worker: operation, position, in-memory instances
    cleaned,   \* pks deleted while they had a generated embedding file
    started,   \* number of operations started so far
    sessions,  \* ChatSession table: sequence of rows, the session id is the index
    usage,     \* per assistant owner: usage counters of the profile and usage log
    call,      \* a call of a function of the services on drawn arguments
    voice      \* the voice consumer, its RealtimeVoiceService and the upstream stream

kbVars == <<db, nextPk, emb, upl, cleaned>>
chatVars == <<sessions, usage>>
vars == <<db, nextPk, emb, upl, thr, cleaned, started, sessions, usage, call, voice>>

reqVars == <<db, nextPk, emb, upl, thr, cleaned, started, sessions, usage, voice>>

NoCall == [fn |-> "none"]

\* an empty transcript buffer (voice_service.py:89-90)
NoTranscript == [by |-> "none", turn |-> 0]

\* VoiceConsumer.__init__ (consumers.py:12-20) and RealtimeVoiceService.__init__
\* (voice_service.py:80-90); the fields after requested describe the upstream
\* stream and what has happened on it
VoiceIdle ==
    [is_voice_active |-> FALSE, websocket |-> "none", sock |-> "none",
     voice_session |-> 0,
     current_user_transcript |-> NoTranscript,
     current_assistant_response |-> NoTranscript,
     reported |-> "connected", stop |-> "idle", starts |-> 0, audio |-> 0,
     forwarded |-> 0, faults |-> 0,
     turn |-> 0, resp |-> "none", pendingU |-> <<>>, requested |-> FALSE,
     sent |-> <<>>, gotU |-> {}, gotA |-> {}, doneTurns |-> {}, endedTurns |-> {},
     handled |-> {}, stopped |-> FALSE]

NoRow == [status |-> "absent"]
NoFile == [hash |-> None, chunks |-> <<>>]
NoPath == 0
NoInst == [pk |-> 0]
NoSim == [num |-> 0, den |-> 1]

\* get_embedding_file_path: one path per (user, item); the path of item pk is pk
get_embedding_file_path(item) == item.pk

Exists(pk) == pk \in Pks /\ db[pk].status # "absent"
FileExists(path) == path \in Pks /\ emb[path].hash # None

\* a model instance loaded from the row pk
Load(pk) ==
    [pk |-> pk, owner |-> db[pk].owner, content |-> db[pk].content,
     file |-> db[pk].file, path |-> db[pk].path, count |-> db[pk].count,
     status |-> db[pk].status, flag |-> FALSE]

RowOf(i) ==
    [owner |-> i.owner, content |-> i.content, file |-> i.file,
     path |-> i.path, count |-> i.count, status |-> i.status]

\* KnowledgeBase.objects.filter(pk=pk).update(...): no row, no effect
UpdateStatus(pk, st) ==
    IF Exists(pk) THEN [db EXCEPT ![pk].status = st] ELSE db

UpdateEmbeddingFields(pk, path, count, st) ==
    IF Exists(pk)
    THEN [db EXCEPT ![pk].path = path, ![pk].count = count, ![pk].status = st]
    ELSE db

Idle ==
    [op |-> "idle", pc |-> "idle", inst |-> NoInst, ginst |-> NoInst,
     gen |-> "none", created |-> FALSE, direct |-> FALSE,
     chunks |-> <<>>, i |-> 0, acc |-> <<>>,
     asst |-> None, qv |-> NoVec, items |-> <<>>, results |-> <<>>,
     outdated |-> <<>>, hadFile |-> FALSE,
     msg |-> <<>>, sid |-> 0, source |-> None, is_voice |-> FALSE,
     session |-> 0, response |-> None,
     qnaCalls |-> 0, retrieverCalls |-> 0, completionCalls |-> 0,
     threadCalls |-> 0, withContext |-> FALSE, reused |-> FALSE,
     undisturbed |-> FALSE,
     completion |-> "none", tokens_used |-> 0]

Init ==
    /\ db = [pk \in Pks |-> NoRow]
    /\ nextPk = 1
    /\ emb = [pk \in Pks |-> NoFile]
    /\ upl = [pk \in Pks |-> FALSE]
    /\ thr = [t \in Threads |-> Idle]
    /\ cleaned = {}
    /\ started = 0
    /\ sessions = <<>>
    /\ usage = [a \in Assistants |-> [requests |-> 0, tokens |-> 0, logs |-> <<>>]]
    /\ voice = VoiceIdle
    /\ call = NoCall


\* the workers after a step of t that leaves t with r; undisturbed records
\* that no other worker has taken a step since t began a refresh
Step(t, r) ==
    [u \in Threads |-> IF u = t THEN r ELSE [thr[u] EXCEPT !.undisturbed = FALSE]]

\* a step of an operation under way
Set(t, r) == thr' = Step(t, r) /\ started' = started /\ call' = call /\ voice' = voice

\* a new operation is started by an idle worker
Start(t, r) ==
    /\ thr[t].pc = "idle"
    /\ started < (IF sessions = <<>> THEN MaxOps ELSE MaxChatOps)
    /\ thr' = Step(t, r)
    /\ started' = started + 1
    /\ call' = call
    /\ voice' = voice

\* os.remove(path) when the path is recorded and the file exists
RemoveEmb(path) == IF FileExists(path) THEN [emb EXCEPT ![path] = NoFile] ELSE emb

(***************************************************************************)
(* Where a worker continues when a call returns.                           *)
(***************************************************************************)
\* generate_embeddings_for_item is entered on the instance i
EnterGenerate(r, i, how) ==
    [r EXCEPT !.pc = "gen_start", !.ginst = i, !.gen = how,
              !.chunks = <<>>, !.i = 0, !.acc = <<>>]

\* the call of generate_embeddings_for_item made by the caller of save():
\* dashboard.py:150 after create, embedding_service.py:208 in refresh
AfterDirect(r) ==
    LET q == [r EXCEPT !.ginst = NoInst, !.gen = "none",
                       !.chunks = <<>>, !.i = 0, !.acc = <<>>]
    IN  IF r.op \in {"search", "chat"}
        THEN [q EXCEPT !.pc = "refresh_next"]
        ELSE [q EXCEPT !.pc = "done", !.inst = NoInst]

\* Model.save() / objects.create() has returned to its caller
AfterSave(r) ==
    LET q == [r EXCEPT !.ginst = NoInst, !.gen = "none", !.created = FALSE,
                       !.chunks = <<>>, !.i = 0, !.acc = <<>>]
    IN  IF r.op \in {"search", "chat"} \/ (r.op = "create" /\ r.direct)
        THEN EnterGenerate(q, q.inst, "direct")
        ELSE [q EXCEPT !.pc = "done", !.inst = NoInst]

\* generate_embeddings_for_item returns normally
GenReturn(r) == IF r.gen = "async" THEN AfterSave(r) ELSE AfterDirect(r)

\* an exception leaves generate_embeddings_for_item: _generate_embeddings_async
\* catches it (signals.py:144-150); a direct caller does not
GenRaise(r) ==
    IF r.gen = "async" THEN [r EXCEPT !.pc = "async_except"]
    ELSE [r EXCEPT !.pc = "raised"]

(***************************************************************************)
(* KnowledgeBase.objects.create(...) in the views (assistant.py:185-203,   *)
(* dashboard.py:130-150): INSERT of the row, the upload stored on disk.    *)
(* pre_save does nothing for an instance without pk.                       *)
(***************************************************************************)
ManualContents == {TextA, TextBlank}
EditContents == {TextC}

\* manual content, or an upload whose content is process_uploaded_file(file)
\* (dashboard.py:291-294); "direct" is the generate call of dashboard.py:150
CreateInputs ==
    {[content |-> c, file |-> NoUpload, direct |-> FALSE] : c \in ManualContents}
    \cup {[content |-> extract_file_content(f), file |-> f, direct |-> d] :
            f \in Uploads, d \in BOOLEAN}

Create(t) ==
    /\ thr[t].pc = "idle"
    /\ nextPk <= MaxItems
    /\ \E a \in KbOwners, in \in CreateInputs :
        LET i == [pk |-> nextPk, owner |-> a, content |-> in.content,
                  file |-> in.file, path |-> NoPath, count |-> 0,
                  status |-> "uploading", flag |-> FALSE]
        IN  /\ db' = [db EXCEPT ![nextPk] = RowOf(i)]
            /\ upl' = [upl EXCEPT ![nextPk] = (in.file # NoUpload)]
            /\ Start(t, [Idle EXCEPT !.op = "create", !.pc = "post_save",
                                   !.created = TRUE, !.direct = in.direct,
                                   !.inst = i])
    /\ nextPk' = nextPk + 1
    /\ UNCHANGED <<emb, cleaned, chatVars>>

(***************************************************************************)
(* edit_knowledge_base_view, action 'update' (assistant.py:155-170): the   *)
(* item is loaded, given the new content and saved.                        *)
(***************************************************************************)
Edit(t) ==
    /\ thr[t].pc = "idle"
    /\ \E pk \in Pks, c \in EditContents :
        /\ Exists(pk)
        /\ db[pk].content # c
        /\ Start(t, [Idle EXCEPT !.op = "edit", !.pc = "pre_save",
                               !.inst = [Load(pk) EXCEPT !.content = c]])
    /\ UNCHANGED <<db, nextPk, emb, upl, cleaned, chatVars>>

\* mutant of knowledge_base_pre_save: every save of a stored item is flagged
knowledge_base_pre_save_Always(t) ==
    /\ thr[t].pc = "pre_save"
    /\ Set(t, [thr[t] EXCEPT !.pc = "save_write", !.inst.flag = TRUE])
    /\ emb' = emb
    /\ UNCHANGED <<db, nextPk, upl, cleaned, chatVars>>

(***************************************************************************)
(* knowledge_base_pre_save (signals.py:12-41)                              *)
(***************************************************************************)
knowledge_base_pre_save(t) ==
    /\ thr[t].pc = "pre_save"
    /\ LET i == thr[t].inst
       IN  IF Exists(i.pk)
           THEN LET old == db[i.pk]
                    changed == old.content # i.content \/ old.file # i.file
                IN  /\ Set(t, [thr[t] EXCEPT !.pc = "save_write",
                                             !.inst.flag = i.flag \/ changed])
                    /\ emb' = IF changed THEN RemoveEmb(old.path) ELSE emb
           ELSE \* KnowledgeBase.DoesNotExist
                /\ Set(t, [thr[t] EXCEPT !.pc = "save_write", !.inst.flag = TRUE])
                /\ emb' = emb
    /\ UNCHANGED <<db, nextPk, upl, cleaned, chatVars>>

(***************************************************************************)
(* Model.save(): UPDATE of every field of the row from the instance, or,   *)
(* when no row has the pk any more, INSERT of the instance.                *)
(***************************************************************************)
SaveWrite(t) ==
    /\ thr[t].pc = "save_write"
    /\ LET i == thr[t].inst
       IN  /\ db' = [db EXCEPT ![i.pk] = RowOf(i)]
           /\ Set(t, [thr[t] EXCEPT !.pc = "post_save", !.created = ~Exists(i.pk)])
    /\ UNCHANGED <<nextPk, emb, upl, cleaned, chatVars>>

(***************************************************************************)
(* knowledge_base_post_save (signals.py:44-68)                             *)
(***************************************************************************)
knowledge_base_post_save(t) ==
    /\ thr[t].pc = "post_save"
    /\ LET r == thr[t]
           should_refresh == r.created \/ r.inst.flag
       IN  IF should_refresh
           THEN /\ db' = UpdateEmbeddingFields(r.inst.pk, NoPath, 0, "processing")
                /\ Set(t, [r EXCEPT !.pc = "async_load", !.inst.path = NoPath,
                                    !.inst.count = 0, !.inst.status = "processing"])
           ELSE /\ db' = db
                /\ Set(t, AfterSave(r))
    /\ UNCHANGED <<nextPk, emb, upl, cleaned, chatVars>>

(***************************************************************************)
(* _generate_embeddings_async (signals.py:133-150): runs at commit, which  *)
(* under autocommit is inside the save; loads the row again.               *)
(***************************************************************************)
AsyncLoad(t) ==
    /\ thr[t].pc = "async_load"
    /\ LET r == thr[t]
       IN  IF Exists(r.inst.pk)
           THEN Set(t, EnterGenerate(r, Load(r.inst.pk), "async"))
           ELSE Set(t, [r EXCEPT !.pc = "async_except", !.gen = "async"])
    /\ UNCHANGED <<db, nextPk, emb, upl, cleaned, chatVars>>

\* the except branch: status error, then the save returns
AsyncExcept(t) ==
    /\ thr[t].pc = "async_except"
    /\ db' = UpdateStatus(thr[t].inst.pk, "error")
    /\ Set(t, AfterSave(thr[t]))
    /\ UNCHANGED <<nextPk, emb, upl, cleaned, chatVars>>


(***************************************************************************)
(* generate_embeddings_for_item (embedding_service.py:64-104) on the       *)
(* instance ginst.  Database writes and the file write can fail; nothing   *)
(* in the function catches that.                                           *)
(***************************************************************************)
\* line 67: status 'processing'
GenStart(t) ==
    /\ thr[t].pc = "gen_start"
    /\ \E ok \in BOOLEAN :
        IF ok THEN /\ db' = UpdateStatus(thr[t].ginst.pk, "processing")
                   /\ Set(t, [thr[t] EXCEPT !.pc = "gen_extract"])
        ELSE /\ db' = db
             /\ Set(t, GenRaise(thr[t]))
    /\ UNCHANGED <<nextPk, emb, upl, cleaned, chatVars>>

\* lines 70-81: extract, status 'error' on empty text, else 'embedding' and chunk
GenExtract(t) ==
    /\ thr[t].pc = "gen_extract"
    /\ LET r == thr[t]
           text_content == extract_text_content(r.ginst)
       IN  IF Strip(text_content) = <<>>
           THEN /\ db' = UpdateStatus(r.ginst.pk, "error")
                /\ Set(t, GenReturn(r))
           ELSE /\ db' = UpdateStatus(r.ginst.pk, "embedding")
                /\ Set(t, [r EXCEPT !.pc = "gen_embed", !.i = 0, !.acc = <<>>,
                              !.chunks = chunk_text(text_content, ChunkSize, ChunkOverlap)])
    /\ UNCHANGED <<nextPk, emb, upl, cleaned, chatVars>>

\* lines 85-96: one embedding call for chunk i; a failed call drops the chunk
GenEmbed(t) ==
    /\ thr[t].pc = "gen_embed"
    /\ thr[t].i < Len(thr[t].chunks)
    /\ \E ok \in BOOLEAN :
        LET r == thr[t]
            chunk == r.chunks[r.i + 1]
            v == IF ok THEN EmbeddingOf(chunk) ELSE NoVec
        IN  Set(t, [r EXCEPT !.i = r.i + 1,
                             !.acc = IF v # NoVec
                                     THEN Append(r.acc, [chunk_id |-> r.i, text |-> chunk,
                                                         vector |-> v])
                                     ELSE r.acc])
    /\ UNCHANGED <<db, nextPk, emb, upl, cleaned, chatVars>>

\* the embedding file written by save_embeddings_to_file (lines 119-147)
EmbeddingData(item, chunks_with_embeddings) ==
    [hash |-> _generate_content_hash(item),
     chunks |-> [k \in 1..Len(chunks_with_embeddings) |->
                    [chunk_index |-> chunks_with_embeddings[k].chunk_id,
                     text |-> chunks_with_embeddings[k].text,
                     embedding |-> chunks_with_embeddings[k].vector]]]

\* lines 99-104 and save_embeddings_to_file up to the file write, which can fail
GenSave(t) ==
    /\ thr[t].pc = "gen_embed"
    /\ thr[t].i >= Len(thr[t].chunks)
    /\ LET r == thr[t]
       IN  IF r.acc = <<>>
           THEN /\ db' = UpdateStatus(r.ginst.pk, "error")
                /\ emb' = emb
                /\ Set(t, GenReturn(r))
           ELSE \E ok \in BOOLEAN :
                IF ok
                THEN /\ emb' = [emb EXCEPT ![get_embedding_file_path(r.ginst)] =
                                             EmbeddingData(r.ginst, r.acc)]
                     /\ db' = db
                     /\ Set(t, [r EXCEPT !.pc = "save_db"])
                ELSE /\ emb' = emb
                     /\ db' = db
                     /\ Set(t, GenRaise(r))
    /\ UNCHANGED <<nextPk, upl, cleaned, chatVars>>

\* save_embeddings_to_file lines 150-154: path, chunk count, status 'completed'
SaveDb(t) ==
    /\ thr[t].pc = "save_db"
    /\ \E ok \in BOOLEAN :
        LET r == thr[t]
        IN  IF ok
            THEN /\ db' = UpdateEmbeddingFields(r.ginst.pk,
                              get_embedding_file_path(r.ginst), Len(r.acc), "completed")
                 /\ Set(t, GenReturn(r))
            ELSE /\ db' = db
                 /\ Set(t, GenRaise(r))
    /\ UNCHANGED <<nextPk, emb, upl, cleaned, chatVars>>

(***************************************************************************)
(* edit_knowledge_base_view, action 'delete' (assistant.py:138-149):       *)
(* the item is loaded, its row deleted, then knowledge_base_post_delete    *)
(* (signals.py:71-91) removes the files the loaded instance names.         *)
(***************************************************************************)
Delete(t) ==
    /\ thr[t].pc = "idle"
    /\ \E pk \in Pks :
        /\ Exists(pk)
        /\ Start(t, [Idle EXCEPT !.op = "delete", !.pc = "del_row", !.inst = Load(pk)])
    /\ UNCHANGED <<db, nextPk, emb, upl, cleaned, chatVars>>

DeleteRow(t) ==
    /\ thr[t].pc = "del_row"
    /\ LET pk == thr[t].inst.pk
       IN  /\ db' = [db EXCEPT ![pk] = NoRow]
           /\ Set(t, [thr[t] EXCEPT !.pc = "post_delete",
                          !.hadFile = Exists(pk) /\ db[pk].path # NoPath
                                      /\ FileExists(db[pk].path)])
    /\ UNCHANGED <<nextPk, emb, upl, cleaned, chatVars>>

knowledge_base_post_delete(t) ==
    /\ thr[t].pc = "post_delete"
    /\ LET i == thr[t].inst
       IN  /\ emb' = RemoveEmb(i.path)
           /\ upl' = IF i.file # NoUpload THEN [upl EXCEPT ![i.pk] = FALSE] ELSE upl
           /\ cleaned' = IF thr[t].hadFile THEN cleaned \cup {i.pk} ELSE cleaned
           /\ Set(t, [thr[t] EXCEPT !.pc = "done", !.inst = NoInst, !.hadFile = FALSE])
    /\ UNCHANGED <<db, nextPk, chatVars>>

(***************************************************************************)
(* delete_embeddings_for_item (embedding_service.py:210-235) on a loaded   *)
(* item.                                                                   *)
(***************************************************************************)
DeleteEmbeddings(t) ==
    /\ thr[t].pc = "idle"
    /\ \E pk \in Pks :
        /\ Exists(pk)
        /\ emb' = RemoveEmb(db[pk].path)
        /\ Start(t, [Idle EXCEPT !.op = "delemb", !.pc = "delemb_db", !.inst = Load(pk)])
    /\ UNCHANGED <<db, nextPk, upl, cleaned, chatVars>>

DeleteEmbeddingsDb(t) ==
    /\ thr[t].pc = "delemb_db"
    /\ \E ok \in BOOLEAN :
        IF ok THEN /\ db' = UpdateEmbeddingFields(thr[t].inst.pk, NoPath, 0, "uploading")
                   /\ Set(t, [thr[t] EXCEPT !.pc = "done", !.inst = NoInst])
        ELSE /\ db' = db
             /\ Set(t, [thr[t] EXCEPT !.pc = "raised", !.inst = NoInst])
    /\ UNCHANGED <<nextPk, emb, upl, cleaned, chatVars>>


(***************************************************************************)
(* find_relevant_knowledge (embedding_service.py:331-386)                  *)
(***************************************************************************)
\* the instances of the rows of assistant a (of the completed ones only
\* when completedOnly), in primary-key order
RECURSIVE RowsFrom(_, _, _)
RowsFrom(k, a, completedOnly) ==
    IF k > MaxItems THEN <<>>
    ELSE IF /\ Exists(k)
            /\ db[k].owner = a
            /\ (completedOnly => db[k].status = "completed")
         THEN <<Load(k)>> \o RowsFrom(k + 1, a, completedOnly)
         ELSE RowsFrom(k + 1, a, completedOnly)

\* assistant.knowledge_base.filter(status='completed')
CompletedItems(a) == RowsFrom(1, a, TRUE)

\* assistant.knowledge_base.all()
AllItems(a) == RowsFrom(1, a, FALSE)

\* load_embeddings_from_file (lines 164-185): None without a recorded path
\* or file; a hash mismatch is only printed
load_embeddings_from_file(item) ==
    IF item.path = NoPath \/ ~FileExists(item.path) THEN NoFile ELSE emb[item.path]

\* the condition of line 178, under which the mismatch is printed
HashMismatch(item, data) ==
    data.hash # None /\ data.hash # _generate_content_hash(item)

\* lines 346-357: the chunks of one file at or above the threshold
RECURSIVE ScanChunks(_, _, _, _)
ScanChunks(item, data, qv, k) ==
    IF k > Len(data.chunks) THEN <<>>
    ELSE LET chunk == data.chunks[k]
             similarity == cosine_similarity(qv, chunk.embedding)
             rest == ScanChunks(item, data, qv, k + 1)
         IN  IF AboveThreshold(similarity)
             THEN <<[pk |-> item.pk, owner |-> item.owner,
                     chunk_id |-> chunk.chunk_index, similarity |-> similarity,
                     content |-> chunk.text,
                     mismatch |-> HashMismatch(item, data)]>> \o rest
             ELSE rest

\* list.sort(key=similarity, reverse=True): stable, descending
RECURSIVE InsertDesc(_, _)
InsertDesc(sorted, x) ==
    IF sorted = <<>> THEN <<x>>
    ELSE IF SimGE(Head(sorted).similarity, x.similarity)
         THEN <<Head(sorted)>> \o InsertDesc(Tail(sorted), x)
         ELSE <<x>> \o sorted

RECURSIVE SortDesc(_)
SortDesc(s) ==
    IF s = <<>> THEN <<>>
    ELSE InsertDesc(SortDesc(SubSeq(s, 1, Len(s) - 1)), s[Len(s)])

\* variant: the first five chunks in the order they were found
TopChunks_Unsorted(relevant_chunks) ==
    SubSeq(relevant_chunks, 1, Min(TopK, Len(relevant_chunks)))

\* relevant_chunks.sort(...); return relevant_chunks[:5]
TopChunks(relevant_chunks) ==
    LET sorted == SortDesc(relevant_chunks)
    IN  SubSeq(sorted, 1, Min(TopK, Len(sorted)))

\* variant: an item is reported when its file is missing, not when the
\* stored hash differs
IsOutdated_MissingFile(item) ==
    /\ item.status = "completed"
    /\ item.path # NoPath
    /\ load_embeddings_from_file(item) = NoFile

\* validate_embeddings_integrity (lines 292-308)
IsOutdated(item) ==
    /\ item.status = "completed"
    /\ item.path # NoPath
    /\ LET data == load_embeddings_from_file(item)
       IN  data # NoFile /\ data.hash # _generate_content_hash(item)

RECURSIVE OutdatedOf(_)
OutdatedOf(items) ==
    IF items = <<>> THEN <<>>
    ELSE IF IsOutdated(Head(items)) THEN <<Head(items)>> \o OutdatedOf(Tail(items))
    ELSE OutdatedOf(Tail(items))

validate_embeddings_integrity(a) == OutdatedOf(AllItems(a))

\* find_relevant_knowledge returns to its caller: the test command, or
\* process_message at chat_service.py:65
SearchReturn(r, found) ==
    [r EXCEPT !.pc = IF r.op = "chat" THEN "pm_reply" ELSE "done",
              !.undisturbed = FALSE, !.results = found, !.items = <<>>, !.outdated = <<>>,
              !.qv = NoVec, !.inst = NoInst]

\* a direct call, as made by test_embedding_sync.py:137
Search(t) ==
    /\ thr[t].pc = "idle"
    /\ \E a \in Assistants :
        Start(t, [Idle EXCEPT !.op = "search", !.pc = "fr_embed", !.asst = a])
    /\ UNCHANGED <<db, nextPk, emb, upl, cleaned, chatVars>>

\* lines 333-335: the query embedding; no embedding, empty result
FrEmbed(t) ==
    /\ thr[t].pc = "fr_embed"
    /\ \E v \in QueryVecs \cup {NoVec} :
        IF v = NoVec THEN Set(t, SearchReturn(thr[t], <<>>))
        ELSE Set(t, [thr[t] EXCEPT !.pc = "fr_query", !.qv = v])
    /\ UNCHANGED <<db, nextPk, emb, upl, cleaned, chatVars>>

\* line 338-340: the query for the completed items of the assistant
FrQuery(t) ==
    /\ thr[t].pc = "fr_query"
    /\ Set(t, [thr[t] EXCEPT !.pc = "fr_scan", !.items = CompletedItems(thr[t].asst),
                             !.results = <<>>])
    /\ UNCHANGED <<db, nextPk, emb, upl, cleaned, chatVars>>

\* lines 340-375 for one item: its file is loaded and scanned; the legacy
\* embeddings field holds {} and adds nothing
FrLoad(t) ==
    /\ thr[t].pc = "fr_scan"
    /\ thr[t].items # <<>>
    /\ LET r == thr[t]
           item == Head(r.items)
           data == load_embeddings_from_file(item)
       IN  Set(t, [r EXCEPT !.items = Tail(r.items),
                            !.results = r.results \o ScanChunks(item, data, r.qv, 1)])
    /\ UNCHANGED <<db, nextPk, emb, upl, cleaned, chatVars>>

\* variant of FrCheck: the result is returned without the empty-result check
FrCheck_NoValidate(t) ==
    /\ thr[t].pc = "fr_scan"
    /\ thr[t].items = <<>>
    /\ Set(t, SearchReturn(thr[t], TopChunks(thr[t].results)))
    /\ UNCHANGED <<db, nextPk, emb, upl, cleaned, chatVars>>

\* lines 379-386: an empty result triggers refresh_outdated_embeddings,
\* any other result is sorted and cut to the top five
FrCheck(t) ==
    /\ thr[t].pc = "fr_scan"
    /\ thr[t].items = <<>>
    /\ LET r == thr[t]
       IN  IF r.results = <<>>
           THEN Set(t, [r EXCEPT !.pc = "refresh_next",
                                 !.outdated = validate_embeddings_integrity(r.asst)])
           ELSE Set(t, SearchReturn(r, TopChunks(r.results)))
    /\ UNCHANGED <<db, nextPk, emb, upl, cleaned, chatVars>>

(***************************************************************************)
(* refresh_outdated_embeddings (lines 310-318) and                         *)
(* refresh_embeddings_for_item (lines 187-208): the old file is removed,   *)
(* the instance reset and saved (which runs the save signals), then        *)
(* generate_embeddings_for_item is called on it.                           *)
(***************************************************************************)
RefreshNext(t) ==
    /\ thr[t].pc = "refresh_next"
    /\ LET r == thr[t]
       IN  IF r.outdated = <<>>
           THEN /\ Set(t, SearchReturn(r, TopChunks(r.results)))
                /\ emb' = emb
           ELSE LET item == Head(r.outdated)
                IN  /\ emb' = RemoveEmb(item.path)
                    /\ Set(t, [r EXCEPT !.pc = "pre_save",
                                        !.undisturbed = TRUE,
                                        !.outdated = Tail(r.outdated),
                                        !.inst = [item EXCEPT !.path = NoPath,
                                                              !.count = 0,
                                                              !.status = "processing"]])
    /\ UNCHANGED <<db, nextPk, upl, cleaned, chatVars>>

(***************************************************************************)
(* Chat messages and stored questions are sequences of words, as           *)
(* str.split() gives them; a word is a sequence of characters.             *)
(***************************************************************************)
LowerChar(c) ==
    CASE c = "W" -> "w" [] c = "H" -> "h" [] c = "O" -> "o" [] c = "P" -> "p"
      [] OTHER -> c

LowerWord(word) == [k \in 1..Len(word) |-> LowerChar(word[k])]

\* str.lower().strip() of a text, word by word
LowerText(text) == [k \in 1..Len(text) |-> LowerWord(text[k])]

\* stop_words of check_qna_match (chat_service.py:103)
stop_words ==
    {<<"w", "h", "a", "t">>,
     <<"h", "o", "w">>,
     <<"w", "h", "e", "n">>,
     <<"w", "h", "e", "r", "e">>,
     <<"w", "h", "y">>,
     <<"w", "h", "o">>,
     <<"t", "h", "e">>,
     <<"a", "n", "d">>,
     <<"o", "r">>,
     <<"b", "u", "t">>,
     <<"y", "o", "u">>,
     <<"y", "o", "u", "r">>,
     <<"a", "r", "e">>,
     <<"i", "s">>,
     <<"d", "o">>,
     <<"d", "o", "e", "s">>,
     <<"c", "a", "n">>,
     <<"w", "i", "l", "l">>,
     <<"w", "o", "u", "l", "d">>,
     <<"s", "h", "o", "u", "l", "d">>,
     <<"a", "b", "o", "u", "t">>,
     <<"w", "i", "t", "h">>,
     <<"f", "o", "r">>,
     <<"f", "r", "o", "m">>,
     <<"t", "o">>,
     <<"i", "n">>,
     <<"o", "n">>,
     <<"a", "t">>,
     <<"b", "y">>}

\* "meaningful" words: longer than 3 characters and not stop words
MeaningfulWords(text_lower) ==
    {text_lower[k] : k \in {j \in 1..Len(text_lower) :
                              /\ Len(text_lower[j]) > 3
                              /\ text_lower[j] \notin stop_words}}

W_what == <<"w", "h", "a", "t">>
W_What == <<"W", "h", "a", "t">>
W_are == <<"a", "r", "e">>
W_your == <<"y", "o", "u", "r">>
W_hours == <<"h", "o", "u", "r", "s">>
W_Hours == <<"H", "o", "u", "r", "s">>
W_open == <<"o", "p", "e", "n">>
W_price == <<"p", "r", "i", "c", "e">>
W_list == <<"l", "i", "s", "t">>
W_today == <<"t", "o", "d", "a", "y">>

\* the QnA rows of each assistant, in their order
Qnas(a) ==
    IF a = "a1"
    THEN <<[question |-> <<W_What, W_are, W_your, W_hours>>, answer |-> "9-5 Mon-Fri"],
           [question |-> <<W_price, W_list, W_today>>, answer |-> "See the price list"],
           [question |-> <<W_open, W_hours, W_price, W_list>>, answer |-> "Open daily"]>>
    ELSE <<>>

Messages ==
    {<<W_what, W_are, W_your, W_Hours>>,        \* an exact match, case aside
     <<W_what, W_price, W_list, W_today>>,      \* same meaningful words as question 2
     <<W_open, W_hours>>}                       \* two shared words, similarity 0.5

(***************************************************************************)
(* check_qna_match (chat_service.py:84-123)                                *)
(***************************************************************************)
\* first pass: the first stored question equal to the message, case aside
RECURSIVE ExactMatch(_, _, _)
ExactMatch(message_lower, qnas, k) ==
    IF k > Len(qnas) THEN None
    ELSE IF LowerText(qnas[k].question) = message_lower THEN qnas[k].answer
    ELSE ExactMatch(message_lower, qnas, k + 1)

\* variant: the ratio alone decides
Qualifies_RatioOnly(intersection, union, best) ==
    /\ 10 * intersection >= 7 * union
    /\ intersection * best.den > best.num * union

\* line 119: similarity >= 0.7 and intersection >= 2 and similarity > best_score
Qualifies(intersection, union, best) ==
    /\ 10 * intersection >= 7 * union
    /\ intersection >= 2
    /\ intersection * best.den > best.num * union

\* second pass: best holds the best score so far as the fraction num / den
RECURSIVE FuzzyMatch(_, _, _, _)
FuzzyMatch(message_lower, qnas, k, best) ==
    IF k > Len(qnas) THEN best.match
    ELSE LET message_words == MeaningfulWords(message_lower)
             question_words == MeaningfulWords(LowerText(qnas[k].question))
             intersection == Cardinality(message_words \cap question_words)
             union == Cardinality(message_words \cup question_words)
         IN  IF message_words = {} \/ question_words = {}
             THEN FuzzyMatch(message_lower, qnas, k + 1, best)
             ELSE IF Qualifies(intersection, union, best)
                  THEN FuzzyMatch(message_lower, qnas, k + 1,
                                  [num |-> intersection, den |-> union,
                                   match |-> qnas[k].answer])
                  ELSE FuzzyMatch(message_lower, qnas, k + 1, best)

NoBest == [num |-> 0, den |-> 1, match |-> None]

check_qna_match(a, message) ==
    LET message_lower == LowerText(message)
        exact == ExactMatch(message_lower, Qnas(a), 1)
    IN  IF exact # None THEN exact
        ELSE FuzzyMatch(message_lower, Qnas(a), 1, NoBest)

(***************************************************************************)
(* ChatService.process_message (chat_service.py:37-82)                     *)
(***************************************************************************)
Sources == {"test_chat", "test_voice_realtime", "widget_chat", "widget_voice"}
VoiceSources == {"test_voice_realtime", "widget_voice"}
\* a session id no row has
UnknownSid == 99
\* the fixed reply of generate_ai_response when the completion call raises
Apology ==
    "I apologize, but I'm having trouble processing your request right now. Please try again later or contact our support team."
CompletionReply == "completion text"
\* total_tokens reported by a completion: none, or some
TokenCounts == {0, 7}

\* a request reaches process_message: from the test view, a command or the widget
Chat(t) ==
    /\ \E a \in Assistants, m \in Messages, src \in Sources,
          sid \in {0, UnknownSid} \cup (1..Len(sessions)) :
        Start(t, [Idle EXCEPT !.op = "chat", !.pc = "pm_session", !.asst = a,
                              !.msg = m, !.sid = sid, !.source = src])
    /\ UNCHANGED <<kbVars, chatVars>>

\* variant: the lookup by session id alone, without the assistant filter
get_or_create_session_AnyOwner(t) ==
    /\ thr[t].pc = "pm_session"
    /\ LET r == thr[t]
           found == r.sid # 0 /\ r.sid \in 1..Len(sessions)
       IN  IF found
           THEN /\ sessions' = sessions
                /\ Set(t, [r EXCEPT !.pc = "pm_user", !.session = r.sid,
                                    !.reused = TRUE])
           ELSE \E thread \in {None, "thread"} :
                LET wanted == r.source \notin VoiceSources
                    openai_thread_id == IF wanted THEN thread ELSE None
                IN  /\ sessions' = Append(sessions,
                            [assistant |-> r.asst, openai_thread_id |-> openai_thread_id,
                             source |-> r.source, messages |-> <<>>])
                    /\ Set(t, [r EXCEPT !.pc = "pm_user",
                                        !.session = Len(sessions) + 1,
                                        !.threadCalls = IF wanted THEN 1 ELSE 0])
    /\ UNCHANGED <<kbVars, usage>>

\* get_or_create_session (lines 13-35)
get_or_create_session(t) ==
    /\ thr[t].pc = "pm_session"
    /\ LET r == thr[t]
           found == r.sid # 0 /\ r.sid \in 1..Len(sessions)
                    /\ sessions[r.sid].assistant = r.asst
       IN  IF found
           THEN /\ sessions' = sessions
                /\ Set(t, [r EXCEPT !.pc = "pm_user", !.session = r.sid,
                                    !.reused = TRUE])
           ELSE \E thread \in {None, "thread"} :
                LET wanted == r.source \notin VoiceSources
                    openai_thread_id == IF wanted THEN thread ELSE None
                IN  /\ sessions' = Append(sessions,
                            [assistant |-> r.asst, openai_thread_id |-> openai_thread_id,
                             source |-> r.source, messages |-> <<>>])
                    /\ Set(t, [r EXCEPT !.pc = "pm_user",
                                        !.session = Len(sessions) + 1,
                                        !.threadCalls = IF wanted THEN 1 ELSE 0])
    /\ UNCHANGED <<kbVars, usage>>

\* variant: the user's message is not written before the reply is composed
SaveUserMessage_Deferred(t) ==
    /\ thr[t].pc = "pm_user"
    /\ Set(t, [thr[t] EXCEPT !.pc = "pm_qna"])
    /\ UNCHANGED <<kbVars, chatVars>>

\* lines 45-50: the user's ChatMessage
SaveUserMessage(t) ==
    /\ thr[t].pc = "pm_user"
    /\ LET r == thr[t]
       IN  /\ sessions' = [sessions EXCEPT ![r.session].messages =
                              Append(@, [message_type |-> "user", content |-> r.msg,
                                         is_voice |-> r.is_voice])]
           /\ Set(t, [r EXCEPT !.pc = "pm_qna"])
    /\ UNCHANGED <<kbVars, usage>>

\* variant: the knowledge base is searched whatever the Q&A check returns
CheckQna_NoPriority(t) ==
    /\ thr[t].pc = "pm_qna"
    /\ Set(t, [thr[t] EXCEPT !.pc = "fr_embed", !.qnaCalls = thr[t].qnaCalls + 1,
                             !.retrieverCalls = thr[t].retrieverCalls + 1])
    /\ UNCHANGED <<kbVars, chatVars>>

\* lines 55-63: the Q&A check; a miss goes on to find_relevant_knowledge
CheckQna(t) ==
    /\ thr[t].pc = "pm_qna"
    /\ LET r == thr[t]
           qna_response == check_qna_match(r.asst, r.msg)
       IN  IF qna_response # None
           THEN Set(t, [r EXCEPT !.pc = "pm_save", !.response = qna_response,
                                 !.qnaCalls = r.qnaCalls + 1])
           ELSE Set(t, [r EXCEPT !.pc = "fr_embed", !.qnaCalls = r.qnaCalls + 1,
                                 !.retrieverCalls = r.retrieverCalls + 1])
    /\ UNCHANGED <<kbVars, chatVars>>

\* variant: the counters are raised and no ApiUsageLog row is written
RecordUsage_NoLog(a, tokens_used) ==
    [usage EXCEPT ![a] = [requests |-> @.requests + 1,
                          tokens |-> @.tokens + tokens_used,
                          logs |-> @.logs]]

\* UserProfile.record_api_usage and the ApiUsageLog row (chat_service.py:360-373)
RecordUsage(a, tokens_used) ==
    [usage EXCEPT ![a] = [requests |-> @.requests + 1,
                          tokens |-> @.tokens + tokens_used,
                          logs |-> Append(@.logs, tokens_used)]]

\* variant: the exception of the completion call is not caught
generate_ai_response_Uncaught(t) ==
    /\ thr[t].pc = "pm_reply"
    /\ LET r == thr[t]
       IN  \/ /\ usage' = usage
              /\ Set(t, [r EXCEPT !.pc = "raised"])
           \/ \E raised \in BOOLEAN, tokens_used \in TokenCounts :
                /\ raised => tokens_used = 0
                /\ usage' = IF ~raised /\ tokens_used > 0
                            THEN RecordUsage(r.asst, tokens_used) ELSE usage
                /\ Set(t, [r EXCEPT !.pc = IF raised THEN "raised" ELSE "pm_save",
                                    !.response = IF raised THEN None ELSE CompletionReply,
                                    !.completion = IF raised THEN "raised" ELSE "ok",
                                    !.tokens_used = tokens_used,
                                    !.completionCalls = r.completionCalls + 1,
                                    !.withContext = (r.results # <<>>)])
    /\ UNCHANGED <<kbVars, sessions>>

\* lines 65-72 and generate_ai_response (lines 282-378): the history query,
\* outside the try block, can fail; then one completion call, with the
\* retrieved chunks in the prompt when there are any; a failed call is
\* answered with the apology
generate_ai_response(t) ==
    /\ thr[t].pc = "pm_reply"
    /\ LET r == thr[t]
       IN  \/ /\ usage' = usage
              /\ Set(t, [r EXCEPT !.pc = "raised"])
           \/ \E raised \in BOOLEAN, tokens_used \in TokenCounts :
                /\ raised => tokens_used = 0
                /\ usage' = IF ~raised /\ tokens_used > 0
                            THEN RecordUsage(r.asst, tokens_used) ELSE usage
                /\ Set(t, [r EXCEPT !.pc = "pm_save",
                                    !.response = IF raised THEN Apology ELSE CompletionReply,
                                    !.completion = IF raised THEN "raised" ELSE "ok",
                                    !.tokens_used = tokens_used,
                                    !.completionCalls = r.completionCalls + 1,
                                    !.withContext = (r.results # <<>>)])
    /\ UNCHANGED <<kbVars, sessions>>

\* lines 75-82: the assistant's ChatMessage, then the return
SaveAssistantMessage(t) ==
    /\ thr[t].pc = "pm_save"
    /\ LET r == thr[t]
       IN  /\ sessions' = [sessions EXCEPT ![r.session].messages =
                              Append(@, [message_type |-> "assistant",
                                         content |-> r.response, is_voice |-> FALSE])]
           /\ Set(t, [r EXCEPT !.pc = "done"])
    /\ UNCHANGED <<kbVars, usage>>

\* the operation has ended (returned, or raised to its caller)
Finish(t) ==
    /\ thr[t].pc \in {"done", "raised"}
    /\ Set(t, Idle)
    /\ UNCHANGED <<db, nextPk, emb, upl, cleaned, chatVars>>

KbStep(t) ==
        \/ Create(t)
        \/ Edit(t)
        \/ knowledge_base_pre_save(t)
        \/ SaveWrite(t)
        \/ knowledge_base_post_save(t)
        \/ AsyncLoad(t)
        \/ AsyncExcept(t)
        \/ GenStart(t)
        \/ GenExtract(t)
        \/ GenEmbed(t)
        \/ GenSave(t)
        \/ SaveDb(t)
        \/ Delete(t)
        \/ DeleteRow(t)
        \/ knowledge_base_post_delete(t)
        \/ DeleteEmbeddings(t)
        \/ DeleteEmbeddingsDb(t)
        \/ Search(t)
        \/ FrEmbed(t)
        \/ FrQuery(t)
        \/ FrLoad(t)
        \/ FrCheck(t)
        \/ RefreshNext(t)
        \/ Finish(t)

ChatStep(t) ==
        \/ Chat(t)
        \/ get_or_create_session(t)
        \/ SaveUserMessage(t)
        \/ CheckQna(t)
        \/ generate_ai_response(t)
        \/ SaveAssistantMessage(t)

\* the knowledge-base operations of concurrent requests
Next == \E t \in Threads : KbStep(t)

Spec == Init /\ [][Next]_vars

\* the steps of saving a knowledge-base item and generating its embeddings
SaveStep(t) ==
        \/ knowledge_base_pre_save(t)
        \/ SaveWrite(t)
        \/ knowledge_base_post_save(t)
        \/ AsyncLoad(t)
        \/ AsyncExcept(t)
        \/ GenStart(t)
        \/ GenExtract(t)
        \/ GenEmbed(t)
        \/ GenSave(t)
        \/ SaveDb(t)

\* the steps of find_relevant_knowledge
SearchStep(t) ==
        \/ FrEmbed(t)
        \/ FrQuery(t)
        \/ FrLoad(t)
        \/ FrCheck(t)
        \/ RefreshNext(t)

\* chat requests over a knowledge base that is being filled, served one at
\* a time by one worker
ChatNext ==
    \/ Create("t1")
    \/ Edit("t1")
    \/ SaveStep("t1")
    \/ SearchStep("t1")
    \/ ChatStep("t1")
    \/ Finish("t1")

ChatSpec == Init /\ [][ChatNext]_vars

(***************************************************************************)
(* Searches over a stored knowledge base: one item of seven chunks whose   *)
(* embedding file was generated for its content; the vectors are whatever  *)
(* the embedding API returned.  The item is completed, or is being         *)
(* generated again (status processing, the file still in place).           *)
(***************************************************************************)
TextLong == [k \in 1..38 |-> "k"]
ChunkVecs == {<<1, 0>>, <<1, 2>>, <<-1, 1>>}

StoredItem(st, n) ==
    [pk |-> 1, owner |-> "a1", content |-> TextLong, file |-> NoUpload,
     path |-> 1, count |-> n, status |-> st, flag |-> FALSE]

StoredFile(item, chunks, vs) ==
    EmbeddingData(item, [k \in 1..Len(chunks) |->
                            [chunk_id |-> k - 1, text |-> chunks[k], vector |-> vs[k]]])

SearchInit ==
    /\ \E st \in {"completed", "processing"} :
        LET chunks == chunk_text(TextLong, ChunkSize, ChunkOverlap)
            item == StoredItem(st, Len(chunks))
        IN  \E vs \in [1..Len(chunks) -> ChunkVecs] :
                /\ db = [pk \in Pks |-> IF pk = 1 THEN RowOf(item) ELSE NoRow]
                /\ emb = [pk \in Pks |-> IF pk = 1 THEN StoredFile(item, chunks, vs)
                                         ELSE NoFile]
    /\ nextPk = 2
    /\ upl = [pk \in Pks |-> FALSE]
    /\ thr = [t \in Threads |-> Idle]
    /\ cleaned = {}
    /\ started = 0
    /\ sessions = <<>>
    /\ usage = [a \in Assistants |-> [requests |-> 0, tokens |-> 0, logs |-> <<>>]]
    /\ voice = VoiceIdle
    /\ call = NoCall

SearchNext ==
    \/ Search("t1")
    \/ SearchStep("t1")
    \/ Finish("t1")

SearchSpec == SearchInit /\ [][SearchNext]_vars

(***************************************************************************)
(* Properties of the knowledge base, checked under Spec.                   *)
(***************************************************************************)
\* the positions inside generate_embeddings_for_item
GenPcs == {"gen_start", "gen_extract", "gen_embed", "save_db"}

\* C3: once an item that had a generated embedding file is deleted, neither
\* its embedding file nor its uploaded source file exists on disk, in every
\* state after the deletion has completed.
C3_DeletedItemLeavesNoFiles ==
    \A pk \in cleaned :
        ~Exists(pk) => (~FileExists(pk) /\ ~upl[pk])

\* C4: find_relevant_knowledge never returns a chunk taken from an embedding
\* file whose stored content_hash differs from the hash of the item's
\* extracted text.
C4_NoStaleChunkReturned ==
    \A t \in Threads :
        thr[t].pc \in {"done", "pm_reply"} =>
            \A k \in 1..Len(thr[t].results) : ~thr[t].results[k].mismatch

\* C5: every run of generate_embeddings_for_item ends with the status of
\* the item error when the extracted text is empty or no chunk embedding
\* succeeded, and otherwise completed, with the embedding file holding
\* exactly the chunks whose embedding call succeeded and chunks_count equal
\* to their number.
C5_RunEnds ==
    \A t \in Threads :
        (thr[t].pc \in GenPcs /\ thr'[t].pc \notin GenPcs
            /\ Exists(thr[t].ginst.pk)') =>
            LET item == thr[t].ginst
                row == db'[item.pk]
            IN  IF Strip(extract_text_content(item)) = <<>> \/ thr[t].acc = <<>>
                THEN row.status = "error"
                ELSE /\ row.status = "completed"
                     /\ row.path = get_embedding_file_path(item)
                     /\ row.count = Len(thr[t].acc)
                     /\ emb'[row.path] = EmbeddingData(item, thr[t].acc)

C5_GenerateEndsCompletedOrError == [][C5_RunEnds]_vars

\* C6: no exception escapes to the caller of generate_embeddings_for_item,
\* refresh_embeddings_for_item or delete_embeddings_for_item.
C6_NoExceptionEscapes ==
    \A t \in Threads :
        thr[t].pc = "raised" => (thr[t].op = "chat" /\ thr[t].gen = "none")

\* C7: an item whose text extraction failed or whose file type is
\* unsupported, and whose content is what the extraction gave, never has
\* status completed.
C7_FailedExtractionNeverCompleted ==
    \A pk \in Pks :
        (/\ Exists(pk)
         /\ db[pk].file # NoUpload
         /\ db[pk].file.kind \in {"zip", "bad"}
         /\ db[pk].content = extract_file_content(db[pk].file)) =>
            db[pk].status # "completed"

\* embeddings were saved for the item and are on record as completed, and
\* the stored hash is not the hash of the item's text
Stale(pk) ==
    /\ Exists(pk)
    /\ db[pk].status = "completed"
    /\ db[pk].path # NoPath
    /\ FileExists(db[pk].path)
    /\ emb[db[pk].path].hash # _generate_content_hash(Load(pk))

Listed(pk) ==
    LET outdated_items == validate_embeddings_integrity(db[pk].owner)
    IN  \E k \in 1..Len(outdated_items) : outdated_items[k].pk = pk

\* C8: an item whose embeddings were saved for one content and whose
\* content is now another is listed by validate_embeddings_integrity; when
\* refresh_embeddings_for_item has completed for an item, with no step of
\* another request since it began, validate_embeddings_integrity does not
\* list the item.
C8_ValidateAndRefresh ==
    /\ \A pk \in Pks : Stale(pk) => Listed(pk)
    /\ \A t \in Threads :
          (thr[t].pc = "refresh_next" /\ thr[t].inst.pk # 0 /\ thr[t].undisturbed) =>
              ~(Exists(thr[t].inst.pk) /\ Listed(thr[t].inst.pk))

\* a refresh of an outdated item has completed with fresh embeddings
C8_Witness ==
    \E t \in Threads :
        /\ thr[t].pc = "refresh_next"
        /\ thr[t].inst.pk # 0
        /\ thr[t].undisturbed
        /\ Exists(thr[t].inst.pk)
        /\ db[thr[t].inst.pk].status = "completed"
        /\ FileExists(db[thr[t].inst.pk].path)
        /\ ~Stale(thr[t].inst.pk)

Rank(status) ==
    CASE status = "uploading" -> 0
      [] status = "processing" -> 1
      [] status = "embedding" -> 2
      [] OTHER -> 3

\* C9: the status of an item only moves forward along uploading ->
\* processing -> embedding -> completed | error, but for the reset to
\* processing made when the content or file of the item has changed.
C9_StatusStep ==
    \A pk \in Pks :
        (Exists(pk) /\ Exists(pk)' /\ db'[pk].status # db[pk].status) =>
            \/ Rank(db'[pk].status) >= Rank(db[pk].status)
            \/ /\ db'[pk].status = "processing"
               /\ \/ db'[pk].content # db[pk].content
                  \/ db'[pk].file # db[pk].file
                  \/ \E t \in Threads :
                        /\ thr[t].pc = "post_save"
                        /\ thr[t].inst.pk = pk
                        /\ thr[t].inst.flag

C9_StatusMonotonic == [][C9_StatusStep]_vars

(***************************************************************************)
(* Properties of the chat service, checked under ChatSpec.                 *)
(***************************************************************************)
\* the positions of process_message at which the reply is being composed
\* or has failed to be composed
Composing(r) ==
    r.op = "chat" /\ r.pc \notin {"idle", "pm_session", "pm_user", "pm_save", "done"}

LastMessage(s) == sessions[s].messages[Len(sessions[s].messages)]

\* C1: for every message handled by process_message the reply follows the
\* priority QnA -> retrieval -> plain LLM: the Q&A check runs first and
\* once; when it returns an answer the reply is exactly that stored answer
\* and neither the retriever nor the completion API is called; otherwise
\* the retriever is called once and, when the reply is composed, the
\* completion API has been called exactly once, with retrieved context if
\* and only if the retriever returned at least one chunk.
C1_ReplyPriority ==
    \A t \in Threads :
        thr[t].op = "chat" =>
            LET r == thr[t]
                qna_response == check_qna_match(r.asst, r.msg)
            IN  /\ r.qnaCalls <= 1
                /\ r.retrieverCalls <= r.qnaCalls
                /\ r.completionCalls <= r.retrieverCalls
                /\ r.pc \in {"pm_save", "done"} =>
                     IF qna_response # None
                     THEN /\ r.response = qna_response
                          /\ \E k \in 1..Len(Qnas(r.asst)) :
                                Qnas(r.asst)[k].answer = r.response
                          /\ r.retrieverCalls = 0
                          /\ r.completionCalls = 0
                     ELSE /\ r.retrieverCalls = 1
                          /\ r.completionCalls = 1
                          /\ r.withContext <=> (r.results # <<>>)

\* a reply composed by the completion API from retrieved chunks
C1_Witness ==
    \E t \in Threads :
        /\ thr[t].op = "chat"
        /\ thr[t].pc = "pm_save"
        /\ check_qna_match(thr[t].asst, thr[t].msg) = None
        /\ thr[t].results # <<>>
        /\ thr[t].withContext
        /\ thr[t].completionCalls = 1

\* C2: in process_message the user's message is on record before the Q&A
\* check, the retrieval or the completion runs, and stays the last message
\* of the session while the reply is composed and when composing fails;
\* the assistant's message is appended after it, once the reply is
\* composed, so each call appends user, assistant in this order.
C2_MessageOrder ==
    \A t \in Threads :
        LET r == thr[t]
        IN  /\ (Composing(r) \/ (r.op = "chat" /\ r.pc = "pm_save")) =>
                /\ sessions[r.session].messages # <<>>
                /\ LastMessage(r.session).message_type = "user"
                /\ LastMessage(r.session).content = r.msg
            /\ (r.op = "chat" /\ r.pc = "done") =>
                LET m == sessions[r.session].messages
                IN  /\ Len(m) >= 2
                    /\ m[Len(m) - 1].message_type = "user"
                    /\ m[Len(m) - 1].content = r.msg
                    /\ m[Len(m)].message_type = "assistant"
                    /\ m[Len(m)].content = r.response

\* composing the reply has failed with the user's message on record
C2_Witness ==
    \E t \in Threads :
        /\ thr[t].op = "chat"
        /\ thr[t].pc = "raised"
        /\ LastMessage(thr[t].session).content = thr[t].msg
        /\ LastMessage(thr[t].session).message_type = "user"

\* the session id given to get_or_create_session names a session of the
\* calling assistant
OwnSession(r) ==
    /\ r.sid \in 1..Len(sessions)
    /\ sessions[r.sid].assistant = r.asst

\* C10: get_or_create_session reuses a session only when the given id names
\* a session of the calling assistant; an id that is unknown or names
\* another assistant's session yields a new, empty session of the calling
\* assistant; create_thread is called for a new session exactly when the
\* source is not a voice source, and a voice session has no thread; and
\* messages are only ever appended to a session by a call made for the
\* assistant the session belongs to.
C10_State ==
    \A t \in Threads :
        LET r == thr[t]
        IN  /\ (r.op = "chat" /\ r.session # 0) =>
                sessions[r.session].assistant = r.asst
            /\ (r.op = "chat" /\ r.pc = "pm_user") =>
                /\ r.reused <=> (r.session = r.sid)
                /\ r.reused => r.threadCalls = 0
                /\ ~r.reused =>
                    /\ r.session = Len(sessions)
                    /\ sessions[r.session].messages = <<>>
                    /\ sessions[r.session].source = r.source
                    /\ (r.threadCalls = 1) <=> (r.source \notin VoiceSources)
                    /\ r.threadCalls <= 1
                    /\ r.source \in VoiceSources =>
                          sessions[r.session].openai_thread_id = None

C10_Step ==
    \A t \in Threads :
        /\ (thr[t].pc = "pm_session" /\ thr'[t].pc = "pm_user") =>
              /\ thr'[t].reused <=> OwnSession(thr[t])
              /\ thr'[t].reused => sessions' = sessions
              /\ ~thr'[t].reused =>
                    /\ Len(sessions') = Len(sessions) + 1
                    /\ SubSeq(sessions', 1, Len(sessions)) = sessions
        /\ \A s \in 1..Len(sessions) :
              (sessions'[s].messages # sessions[s].messages /\ thr'[t] # thr[t]) =>
                  thr[t].asst = sessions[s].assistant

C11_State ==
    \A t \in Threads :
        LET r == thr[t]
        IN  (r.op = "chat" /\ r.completion = "raised") =>
                /\ r.pc \in {"pm_save", "done"}
                /\ r.response = Apology
                /\ r.tokens_used = 0
                /\ r.pc = "done" =>
                      /\ LastMessage(r.session).message_type = "assistant"
                      /\ LastMessage(r.session).content = Apology

C11_Step ==
    \A t \in Threads :
        (thr[t].pc = "pm_reply" /\ thr'[t].completion = "raised") => usage' = usage

C11_ApologyOnFailure == [](C11_State) /\ [][C11_Step]_vars

\* the apology has been persisted after a failed completion call
C11_Witness ==
    \E t \in Threads :
        /\ thr[t].op = "chat"
        /\ thr[t].pc = "done"
        /\ thr[t].completion = "raised"
        /\ LastMessage(thr[t].session).content = Apology

\* C12: a successful completion call that reports n > 0 tokens raises the
\* owner's request count by one and token count by n and appends exactly
\* one usage-log entry, and changes no other owner's record; with zero or
\* absent usage no counter changes and no log entry is written.
C12_Step ==
    \A t \in Threads :
        (thr[t].pc = "pm_reply" /\ thr'[t].pc = "pm_save"
            /\ thr'[t].completion = "ok") =>
            LET a == thr[t].asst
                n == thr'[t].tokens_used
            IN  IF n > 0
                THEN /\ usage'[a].requests = usage[a].requests + 1
                     /\ usage'[a].tokens = usage[a].tokens + n
                     /\ usage'[a].logs = Append(usage[a].logs, n)
                     /\ \A b \in Assistants \ {a} : usage'[b] = usage[b]
                ELSE usage' = usage

MaxWords == 3
MaxQnas == 2

SeqsUpTo(S, n) == UNION {[1..k -> S] : k \in 0..n}

QnaPool ==
    {[question |-> <<W_hours>>, answer |-> "A1"],
     [question |-> <<W_price, W_list>>, answer |-> "A2"],
     [question |-> <<W_list, W_price, W_today>>, answer |-> "A3"],
     [question |-> <<W_today, W_price, W_list, W_hours>>, answer |-> "A4"]}

MatchWords == {W_what, W_Hours, W_price, W_list, W_today}

MatchInit ==
    /\ \E message \in SeqsUpTo(MatchWords, MaxWords) \ {<<>>},
          qnas \in SeqsUpTo(QnaPool, MaxQnas) :
            call = [fn |-> "check_qna_match", pc |-> "exact", message |-> message,
                    qnas |-> qnas, pass |-> "none", result |-> None]
    /\ db = [pk \in Pks |-> NoRow]
    /\ nextPk = 1
    /\ emb = [pk \in Pks |-> NoFile]
    /\ upl = [pk \in Pks |-> FALSE]
    /\ thr = [t \in Threads |-> Idle]
    /\ cleaned = {}
    /\ started = 0
    /\ sessions = <<>>
    /\ usage = [a \in Assistants |-> [requests |-> 0, tokens |-> 0, logs |-> <<>>]]
    /\ voice = VoiceIdle

\* lines 86-93
MatchExact ==
    /\ call.fn = "check_qna_match"
    /\ call.pc = "exact"
    /\ LET exact == ExactMatch(LowerText(call.message), call.qnas, 1)
       IN  call' = IF exact # None
                   THEN [call EXCEPT !.pc = "returned", !.pass = "exact", !.result = exact]
                   ELSE [call EXCEPT !.pc = "fuzzy"]
    /\ UNCHANGED reqVars

\* lines 95-123
MatchFuzzy ==
    /\ call.fn = "check_qna_match"
    /\ call.pc = "fuzzy"
    /\ call' = [call EXCEPT !.pc = "returned", !.pass = "fuzzy",
                            !.result = FuzzyMatch(LowerText(call.message), call.qnas,
                                                  1, NoBest)]
    /\ UNCHANGED reqVars

MatchNext == MatchExact \/ MatchFuzzy

MatchSpec == MatchInit /\ [][MatchNext]_vars

(***************************************************************************)
(* chunk_text on a drawn text, one iteration of its loop at a time.  The   *)
(* texts are those generate_embeddings_for_item passes: not blank.  The    *)
(* window of each returned chunk is recorded beside it.                    *)
(***************************************************************************)
MaxText == 14
\* the positions that may hold a sentence end
PeriodAt == {7, 8}

\* the text of letters and spaces base with sentence ends at dots
TextOf(base, dots) == [k \in 1..Len(base) |-> IF k \in dots THEN "." ELSE base[k]]

\* a call chunk_text(text, chunk_size, overlap) on a drawn text of at most
\* maxLen characters with the parameters drawn from params
ChunkStart(maxLen, params) ==
    /\ \E n \in 1..maxLen, p \in params :
        \E base \in [1..n -> {"a", " "}], dots \in SUBSET (PeriodAt \cap 1..n) :
            /\ Strip(TextOf(base, dots)) # <<>>
            /\ call = [fn |-> "chunk_text", pc |-> "entry", text |-> TextOf(base, dots),
                       size |-> p[1], overlap |-> p[2],
                       start |-> 0, chunks |-> <<>>, windows |-> <<>>]
    /\ db = [pk \in Pks |-> NoRow]
    /\ nextPk = 1
    /\ emb = [pk \in Pks |-> NoFile]
    /\ upl = [pk \in Pks |-> FALSE]
    /\ thr = [t \in Threads |-> Idle]
    /\ cleaned = {}
    /\ started = 0
    /\ sessions = <<>>
    /\ usage = [a \in Assistants |-> [requests |-> 0, tokens |-> 0, logs |-> <<>>]]
    /\ voice = VoiceIdle

\* the call made by generate_embeddings_for_item: the service's own
\* chunk_size and chunk_overlap (lines 23-26)
ChunkInit == ChunkStart(MaxText, {<<ChunkSize, ChunkOverlap>>})

\* lines 28-32: a text no longer than a chunk is returned as it is
ChunkEntry ==
    /\ call.fn = "chunk_text"
    /\ call.pc = "entry"
    /\ call' = IF Len(call.text) <= call.size
               THEN [call EXCEPT !.pc = "returned", !.chunks = <<call.text>>,
                                 !.windows = <<[start |-> 0, end |-> Len(call.text)]>>]
               ELSE [call EXCEPT !.pc = "loop"]
    /\ UNCHANGED reqVars

\* lines 34-52: one iteration of the while loop
ChunkIter ==
    /\ call.fn = "chunk_text"
    /\ call.pc = "loop"
    /\ call.start < Len(call.text)
    /\ Len(call.chunks) < MaxChunkIter
    /\ LET end == WindowEnd(call.text, call.start, call.size)
           chunk == Strip(Slice(call.text, call.start, end))
           next == end - call.overlap
       IN  call' = [call EXCEPT
                       !.chunks = IF chunk # <<>> THEN Append(@, chunk) ELSE @,
                       !.windows = IF chunk # <<>>
                                   THEN Append(@, [start |-> call.start, end |-> end])
                                   ELSE @,
                       !.start = next,
                       !.pc = IF next >= Len(call.text) THEN "returned" ELSE "loop"]
    /\ UNCHANGED reqVars

ChunkNext == ChunkEntry \/ ChunkIter

ChunkSpec == ChunkInit /\ [][ChunkNext]_vars

\* chunk_text called with other parameters (chunk_size, overlap): the
\* arguments of lines 21-26 are not validated.  The while loop is sequential
\* code, so an enabled iteration is eventually run.
MaxParamText == 10
ChunkParams == {<<8, 2>>, <<4, 1>>, <<8, 7>>, <<4, 4>>}
ChunkParamInit == ChunkStart(MaxParamText, ChunkParams)
ChunkParamSpec == ChunkParamInit /\ [][ChunkNext]_vars /\ WF_vars(ChunkNext)

(***************************************************************************)
(* ChatService.detect_language (chat_service.py:212-280) on a drawn        *)
(* message.  A message is the sequence of its space-separated tokens.      *)
(***************************************************************************)
MaxTokens == 6

english_indicators ==
    {"what", "how", "when", "where", "why", "who", "which", "whose", "the",
     "and", "or", "but", "with", "for", "from", "to", "at", "by", "are",
     "is", "was", "were", "be", "been", "being", "have", "has", "had",
     "do", "does", "did", "will", "would", "should", "could", "can", "may",
     "might", "your", "you", "i", "we", "they", "he", "she", "it", "my",
     "our", "their", "business", "service", "services", "hours", "contact",
     "many", "much", "some", "about", "company", "property", "properties",
     "agent", "agents", "luxury"}

malay_words ==
    {"apa", "yang", "ini", "itu", "saya", "awak", "kamu", "dengan",
     "untuk", "dari", "dalam", "boleh", "tidak", "tak", "ada", "tiada",
     "macam", "mana", "bagaimana", "kenapa", "bila", "kami", "mereka",
     "dia", "terima", "kasih", "maaf", "tolong", "pun", "lagi", "juga",
     "sudah", "belum", "akan", "sedang", "buat", "kerja", "rumah",
     "sekolah", "universiti", "malaysia", "melayu", "ringgit", "sen",
     "berapa", "banyak", "sikit", "ramai", "ejen", "hartanah", "mewah",
     "perkhidmatan", "waktu", "operasi", "perniagaan", "masa", "hari",
     "minggu", "bulan", "tahun", "pagi", "tengah", "petang", "malam"}

\* each phrase as its two words
malay_phrases ==
    {<<"terima", "kasih">>,
     <<"boleh", "tak">>,
     <<"macam", "mana">>,
     <<"tak", "ada">>,
     <<"ada", "tak">>,
     <<"apa", "khabar">>,
     <<"berapa", "ramai">>,
     <<"boleh", "tolong">>,
     <<"saya", "nak">>,
     <<"awak", "ada">>,
     <<"berapa", "harga">>,
     <<"bagaimana", "nak">>,
     <<"apa", "waktu">>,
     <<"waktu", "operasi">>}

\* the tokens messages are drawn from: an English indicator with a capital,
\* Malay words (two of them a phrase), a word of neither list, punctuation
LangTokens == {"What", "saya", "terima", "kasih", "kedai", "?"}

\* str.lower() of a token
LowerTok(tok) == IF tok = "What" THEN "what" ELSE tok

\* re.sub(r'[^\w\s]', ' ', ...).split(): punctuation leaves no word
RECURSIVE CleanWords(_)
CleanWords(toks) ==
    IF toks = <<>> THEN <<>>
    ELSE IF Head(toks) = "?" THEN CleanWords(Tail(toks))
    ELSE <<Head(toks)>> \o CleanWords(Tail(toks))

CountIn(words, S) == Cardinality({k \in 1..Len(words) : words[k] \in S})

\* lines 257-259: some phrase occurs in the lower-cased message
HasPhrase(message_lower) ==
    \E k \in 1..(Len(message_lower) - 1) :
        <<message_lower[k], message_lower[k + 1]>> \in malay_phrases

\* lines 275-280
Fallback(words, malay_count) ==
    IF Len(words) <= 2 /\ malay_count = 0 THEN "en"
    ELSE IF malay_count > 0 THEN "ms"
    ELSE "en"

\* the ratios count / len(words) are compared by cross multiplication
detect_language(message) ==
    IF message = <<>> THEN "en"
    ELSE LET message_lower == [k \in 1..Len(message) |-> LowerTok(message[k])]
             words == CleanWords(message_lower)
             n == Len(words)
             malay_count == CountIn(words, malay_words)
             english_count == CountIn(words, english_indicators)
         IN  IF words = <<>> THEN "en"
             ELSE IF HasPhrase(message_lower) THEN "ms"
             ELSE IF english_count > 0 /\ malay_count = 0 THEN "en"
             ELSE IF /\ n > 2
                     /\ english_count * n > malay_count * n
                     /\ 10 * english_count >= 3 * n
                  THEN "en"
             ELSE IF n > 2 /\ 10 * malay_count >= 2 * n THEN "ms"
             ELSE Fallback(words, malay_count)

LangInit ==
    /\ \E message \in SeqsUpTo(LangTokens, MaxTokens) :
            call = [fn |-> "detect_language", pc |-> "called", message |-> message,
                    result |-> None]
    /\ db = [pk \in Pks |-> NoRow]
    /\ nextPk = 1
    /\ emb = [pk \in Pks |-> NoFile]
    /\ upl = [pk \in Pks |-> FALSE]
    /\ thr = [t \in Threads |-> Idle]
    /\ cleaned = {}
    /\ started = 0
    /\ sessions = <<>>
    /\ usage = [a \in Assistants |-> [requests |-> 0, tokens |-> 0, logs |-> <<>>]]
    /\ voice = VoiceIdle

DetectLanguage ==
    /\ call.fn = "detect_language"
    /\ call.pc = "called"
    /\ call' = [call EXCEPT !.pc = "returned", !.result = detect_language(call.message)]
    /\ UNCHANGED reqVars

LangNext == DetectLanguage

LangSpec == LangInit /\ [][LangNext]_vars

(***************************************************************************)
(* The realtime voice session: VoiceConsumer (consumers.py) handles the    *)
(* client's messages one at a time; the upstream stream runs in a thread   *)
(* of its own, which calls on_message for one event at a time and on_close *)
(* when the stream has ended (voice_service.py:253-512).  The function     *)
(* call handler uses worker t1 for the search.                             *)
(***************************************************************************)
MaxTurns == 2
MaxStarts == 1
MaxAudio == 1
MaxFaults == 1

VoiceOwner == "a1"
VoiceWorker == "t1"

\* on_message is not in the middle of a function call
HandlerFree == thr[VoiceWorker].op # "voice"

\* the upstream thread can deliver the next event
Delivering == voice.sock = "open" /\ HandlerFree

\* ws.send(...): written to the open stream, or raises: always on a closed
\* stream, and on an open one when the write fails
SendOutcomes ==
    IF voice.sock = "open"
    THEN (IF voice.faults < MaxFaults THEN {TRUE, FALSE} ELSE {TRUE})
    ELSE {FALSE}

\* the session after a send with outcome ok
AfterSend(v, ok) ==
    IF ~ok /\ v.sock = "open" THEN [v EXCEPT !.faults = @ + 1] ELSE v

ResponseCreate == [type |-> "response.create"]

\* UserProfile.record_api_usage (user.py:329-337)
record_api_usage(a, token_count) ==
    [usage EXCEPT ![a] = [requests |-> @.requests + 1,
                          tokens |-> @.tokens + token_count,
                          logs |-> @.logs]]

\* VoiceTranscriptService.save_transcript (voice_service.py:26-50): the
\* messages it adds to the session
save_transcript(user_transcript, assistant_response) ==
    (IF user_transcript # NoTranscript
     THEN <<[message_type |-> "user", content |-> user_transcript, is_voice |-> TRUE]>>
     ELSE <<>>)
    \o (IF assistant_response # NoTranscript
        THEN <<[message_type |-> "assistant", content |-> assistant_response,
                is_voice |-> TRUE]>>
        ELSE <<>>)

\* format_knowledge_for_realtime (voice_service.py:832-846): the top three
format_knowledge_for_realtime(relevant_knowledge) ==
    SubSeq(relevant_knowledge, 1, Min(3, Len(relevant_knowledge)))

\* start_voice_session (consumers.py:87-157) with
\* create_server_websocket_connection (voice_service.py:161-203, 514-566)
start_voice_session ==
    /\ ~voice.is_voice_active
    /\ voice.stop = "idle"
    /\ voice.starts < MaxStarts
    /\ \E status \in {"success", "error"} :
        /\ sessions' = Append(sessions,
                [assistant |-> VoiceOwner, openai_thread_id |-> None,
                 source |-> "test_voice_realtime", messages |-> <<>>])
        /\ voice' = [voice EXCEPT
                        !.starts = @ + 1,
                        !.voice_session = Len(sessions) + 1,
                        !.current_user_transcript = NoTranscript,
                        !.current_assistant_response = NoTranscript,
                        !.websocket = "app",
                        !.sock = IF status = "success" THEN "open" ELSE "closed",
                        !.is_voice_active = (status = "success"),
                        !.reported = IF status = "success" THEN "voice_started"
                                     ELSE "error",
                        !.resp = "none", !.pendingU = <<>>, !.requested = FALSE,
                        !.stopped = FALSE]
    /\ UNCHANGED <<kbVars, thr, started, usage, call>>

\* stop_voice_session, lines 162-164: the two tests of the if statements
StopCheck ==
    /\ voice.stop = "idle"
    /\ voice.is_voice_active
    /\ voice' = IF voice.websocket = "app"
                THEN [voice EXCEPT !.stop = "close"]
                ELSE [voice EXCEPT !.is_voice_active = FALSE,
                                   !.reported = "voice_stopped", !.stopped = TRUE]
    /\ UNCHANGED <<kbVars, thr, started, sessions, usage, call>>

\* stop_voice_session, lines 165-179: self.voice_service.websocket is read
\* again for the call of close(); on None the AttributeError is reported
StopClose ==
    /\ voice.stop = "close"
    /\ voice' = IF voice.websocket = "app"
                THEN [voice EXCEPT !.stop = "idle", !.sock = "closed",
                                   !.is_voice_active = FALSE,
                                   !.reported = "voice_stopped", !.stopped = TRUE]
                ELSE [voice EXCEPT !.stop = "idle", !.reported = "error",
                                   !.stopped = TRUE]
    /\ UNCHANGED <<kbVars, thr, started, sessions, usage, call>>

\* process_audio_data (consumers.py:181-203) and send_to_openai (237-255)
process_audio_data ==
    /\ voice.stop = "idle"
    /\ voice.audio < MaxAudio
    /\ IF ~voice.is_voice_active \/ voice.websocket = "none"
       THEN voice' = [voice EXCEPT !.audio = @ + 1]
       ELSE \E ok \in SendOutcomes :
              voice' = IF ok
                       THEN [voice EXCEPT !.audio = @ + 1, !.forwarded = @ + 1]
                       ELSE [AfterSend(voice, ok) EXCEPT !.audio = @ + 1,
                                                         !.reported = "error"]
    /\ UNCHANGED <<kbVars, thr, started, sessions, usage, call>>

\* the upstream end or the network closes the stream
UpstreamClose ==
    /\ voice.sock = "open"
    /\ voice' = [voice EXCEPT !.sock = "closed"]
    /\ UNCHANGED <<kbVars, thr, started, sessions, usage, call>>

\* on_close (voice_service.py:504-512), called by the upstream thread
on_close ==
    /\ voice.sock = "closed"
    /\ voice.websocket = "app"
    /\ HandlerFree
    /\ voice' = [voice EXCEPT !.websocket = "none"]
    /\ UNCHANGED <<kbVars, thr, started, sessions, usage, call>>

\* input_audio_buffer.speech_stopped (lines 265-271): a response is
\* requested; the response that follows calls the function or speaks
OnSpeechStopped ==
    /\ Delivering
    /\ voice.resp = "none"
    /\ voice.turn < MaxTurns
    /\ \E kind \in {"fc", "audio"}, ok \in SendOutcomes :
        voice' = [AfterSend(voice, ok) EXCEPT
                               !.turn = @ + 1,
                               !.pendingU = Append(@, voice.turn + 1),
                               !.resp = kind, !.requested = FALSE,
                               !.sent = IF ok THEN Append(@, ResponseCreate) ELSE @]
    /\ UNCHANGED <<kbVars, thr, started, sessions, usage, call>>

\* conversation.item.input_audio_transcription.completed (lines 436-453) or
\* .failed (454-466): the transcription of a turn's speech ends, at any
\* time after the speech
OnUserTranscript ==
    /\ Delivering
    /\ voice.pendingU # <<>>
    /\ \E completed \in BOOLEAN :
        voice' = IF completed
                 THEN [voice EXCEPT
                          !.pendingU = Tail(@),
                          !.gotU = @ \cup {Head(voice.pendingU)},
                          !.current_user_transcript =
                              [by |-> "user", turn |-> Head(voice.pendingU)]]
                 ELSE [voice EXCEPT !.pendingU = Tail(@)]
    /\ UNCHANGED <<kbVars, thr, started, sessions, usage, call>>

\* response.function_call_arguments.done (lines 274-285) and
\* handle_function_call (775-830) up to the search: the Q&As first
OnFunctionCall ==
    /\ Delivering
    /\ voice.resp = "fc"
    /\ \E query \in Messages :
        LET qna_response == check_qna_match(VoiceOwner, query)
            r == [Idle EXCEPT !.op = "voice", !.asst = VoiceOwner, !.qnaCalls = 1]
        IN  thr' = Step(VoiceWorker,
                        IF qna_response # None
                        THEN [r EXCEPT !.pc = "fc_send", !.response = qna_response]
                        ELSE [r EXCEPT !.pc = "fr_embed", !.retrieverCalls = 1])
    /\ voice' = [voice EXCEPT !.resp = "fc_args_done"]
    /\ UNCHANGED <<kbVars, started, sessions, usage, call>>

\* the result of handle_function_call (lines 789-822)
FunctionResult(r) ==
    IF r.pc = "fc_send" THEN [source |-> "qna", results |-> 0]
    ELSE IF r.results # <<>>
         THEN [source |-> "knowledge_base",
               results |-> Len(format_knowledge_for_realtime(r.results))]
         ELSE [source |-> "none", results |-> 0]

\* lines 287-296: the function_call_output is sent
SendFunctionOutput ==
    /\ thr[VoiceWorker].op = "voice"
    /\ thr[VoiceWorker].pc \in {"fc_send", "done"}
    /\ LET r == thr[VoiceWorker]
       IN  \E ok \in SendOutcomes :
            /\ thr' = Step(VoiceWorker, [r EXCEPT !.pc = IF ok THEN "fc_create"
                                                         ELSE "fc_error"])
            /\ voice' = IF ok
                        THEN [voice EXCEPT !.sent = Append(@,
                                 [type |-> "function_call_output",
                                  call_id |-> voice.turn,
                                  source |-> FunctionResult(r).source,
                                  results |-> FunctionResult(r).results,
                                  qnaCalls |-> r.qnaCalls,
                                  retrieverCalls |-> r.retrieverCalls])]
                        ELSE AfterSend(voice, ok)
    /\ UNCHANGED <<kbVars, started, sessions, usage, call>>

\* lines 298-304: the response is requested again
SendResponseCreate ==
    /\ thr[VoiceWorker].op = "voice"
    /\ thr[VoiceWorker].pc = "fc_create"
    /\ \E ok \in SendOutcomes :
        IF ok
        THEN /\ thr' = Step(VoiceWorker, Idle)
             /\ voice' = [voice EXCEPT !.sent = Append(@, ResponseCreate),
                                       !.requested = TRUE,
                                       !.handled = @ \cup {voice.turn}]
        ELSE /\ thr' = Step(VoiceWorker, [thr[VoiceWorker] EXCEPT !.pc = "fc_error"])
             /\ voice' = AfterSend(voice, ok)
    /\ UNCHANGED <<kbVars, started, sessions, usage, call>>

\* lines 306-320: the except branch sends an error output and nothing else;
\* an exception of this send ends in the handler of line 497
SendErrorOutput ==
    /\ thr[VoiceWorker].op = "voice"
    /\ thr[VoiceWorker].pc = "fc_error"
    /\ thr' = Step(VoiceWorker, Idle)
    /\ \E ok \in SendOutcomes :
        voice' = [AfterSend(voice, ok) EXCEPT
                     !.handled = @ \cup {voice.turn},
                     !.sent = IF ok
                              THEN Append(@, [type |-> "function_call_output",
                                              call_id |-> voice.turn,
                                              source |-> "error", results |-> 0,
                                              qnaCalls |-> thr[VoiceWorker].qnaCalls,
                                              retrieverCalls |->
                                                  thr[VoiceWorker].retrieverCalls])
                              ELSE @]
    /\ UNCHANGED <<kbVars, started, sessions, usage, call>>

\* response.audio_transcript.done (lines 358-374)
OnAssistantTranscript ==
    /\ Delivering
    /\ voice.resp = "audio"
    /\ voice' = [voice EXCEPT !.resp = "audio_done",
                              !.gotA = @ \cup {voice.turn},
                              !.current_assistant_response =
                                  [by |-> "assistant", turn |-> voice.turn]]
    /\ UNCHANGED <<kbVars, thr, started, sessions, usage, call>>

\* response.done (lines 375-422): of the response that called the function,
\* or of the spoken response; the transcripts are saved and the buffers
\* reset, then the usage is recorded
OnResponseDone ==
    /\ Delivering
    /\ voice.resp \in {"fc_args_done", "audio_done"}
    /\ LET saving == /\ voice.voice_session # 0
                     /\ \/ voice.current_user_transcript # NoTranscript
                        \/ voice.current_assistant_response # NoTranscript
       IN  /\ sessions' =
                IF saving
                THEN [sessions EXCEPT ![voice.voice_session].messages =
                         @ \o save_transcript(voice.current_user_transcript,
                                              voice.current_assistant_response)]
                ELSE sessions
           /\ voice' = [voice EXCEPT
                  !.current_user_transcript = IF saving THEN NoTranscript ELSE @,
                  !.current_assistant_response = IF saving THEN NoTranscript ELSE @,
                  !.resp = IF voice.resp = "fc_args_done" /\ voice.requested
                           THEN "audio" ELSE "none",
                  !.endedTurns = @ \cup {voice.turn},
                  !.doneTurns = IF voice.resp = "audio_done"
                                THEN @ \cup {voice.turn} ELSE @]
    /\ \E total_tokens \in TokenCounts :
        usage' = IF total_tokens > 0
                 THEN RecordUsage(VoiceOwner, total_tokens)
                 ELSE record_api_usage(VoiceOwner, 0)
    /\ UNCHANGED <<kbVars, thr, started, call>>

\* the knowledge base of the assistant: the stored item, with chunks that
\* match every query or none
VoiceInit ==
    /\ \E v \in {<<1, 0>>, <<-1, 1>>} :
        LET chunks == chunk_text(TextLong, ChunkSize, ChunkOverlap)
            item == StoredItem("completed", Len(chunks))
        IN  /\ db = [pk \in Pks |-> IF pk = 1 THEN RowOf(item) ELSE NoRow]
            /\ emb = [pk \in Pks |->
                        IF pk = 1
                        THEN StoredFile(item, chunks, [k \in 1..Len(chunks) |-> v])
                        ELSE NoFile]
    /\ nextPk = 2
    /\ upl = [pk \in Pks |-> FALSE]
    /\ thr = [t \in Threads |-> Idle]
    /\ cleaned = {}
    /\ started = 0
    /\ sessions = <<>>
    /\ usage = [a \in Assistants |-> [requests |-> 0, tokens |-> 0, logs |-> <<>>]]
    /\ call = NoCall
    /\ voice = VoiceIdle

VoiceNext ==
    \/ start_voice_session
    \/ StopCheck
    \/ StopClose
    \/ process_audio_data
    \/ UpstreamClose
    \/ on_close
    \/ OnSpeechStopped
    \/ OnUserTranscript
    \/ OnFunctionCall
    \/ SearchStep(VoiceWorker)
    \/ SendFunctionOutput
    \/ SendResponseCreate
    \/ SendErrorOutput
    \/ OnAssistantTranscript
    \/ OnResponseDone

VoiceSpec == VoiceInit /\ [][VoiceNext]_vars

(***************************************************************************)
(* Properties of the retrieval, checked under SearchSpec.                  *)
(***************************************************************************)
\* the chunks <<pk, position in the file>> of the completed items of
\* assistant a whose similarity to the query vector qv reaches the threshold
Qualifying(a, qv) ==
    {c \in UNION {{<<pk, k>> : k \in 1..Len(emb[pk].chunks)} : pk \in Pks} :
        /\ Exists(c[1])
        /\ db[c[1]].owner = a
        /\ db[c[1]].status = "completed"
        /\ db[c[1]].path = c[1]
        /\ AboveThreshold(cosine_similarity(qv, emb[c[1]].chunks[c[2]].embedding))}

SimOf(qv, c) == cosine_similarity(qv, emb[c[1]].chunks[c[2]].embedding)

\* the chunks a result list names
Returned(res) ==
    {c \in UNION {{<<pk, k>> : k \in 1..Len(emb[pk].chunks)} : pk \in Pks} :
        \E j \in 1..Len(res) :
            /\ res[j].pk = c[1]
            /\ res[j].chunk_id = emb[c[1]].chunks[c[2]].chunk_index}

\* C13: find_relevant_knowledge returns at most five results, each with a
\* similarity at or above the threshold, in descending order of
\* similarity, and they are the highest-similarity chunks among all the
\* chunks at or above the threshold of the completed items of the
\* assistant, and of no other item.
C13_Step ==
    \A t \in Threads :
        (thr[t].pc \in {"fr_scan", "refresh_next"} /\ thr'[t].pc \in {"done", "pm_reply"}) =>
            LET res == thr'[t].results
                qv == thr[t].qv
                all == Qualifying(thr[t].asst, qv)
                got == Returned(res)
            IN  /\ Len(res) <= TopK
                /\ Len(res) = Min(TopK, Cardinality(all))
                /\ Cardinality(got) = Len(res)
                /\ got \subseteq all
                /\ \A j \in 1..Len(res) :
                      /\ AboveThreshold(res[j].similarity)
                      /\ res[j].owner = thr[t].asst
                      /\ \E c \in got : /\ res[j].pk = c[1]
                                        /\ res[j].similarity = SimOf(qv, c)
                                        /\ res[j].content = emb[c[1]].chunks[c[2]].text
                /\ \A j \in 1..(Len(res) - 1) :
                      SimGE(res[j].similarity, res[j + 1].similarity)
                /\ \A c \in all \ got :
                      \A j \in 1..Len(res) : SimGE(res[j].similarity, SimOf(qv, c))

MsgWords == MeaningfulWords(LowerText(call.message))
QWords(k) == MeaningfulWords(LowerText(call.qnas[k].question))
Shared(k) == Cardinality(MsgWords \cap QWords(k))
Joint(k) == Cardinality(MsgWords \cup QWords(k))

\* Jaccard similarity at least 0.7 and at least two shared words
Qualifying14(k) == 10 * Shared(k) >= 7 * Joint(k) /\ Shared(k) >= 2

\* C14: in the similarity pass a stored question qualifies only with a
\* Jaccard similarity of at least 0.7 and at least two shared meaningful
\* words; the answer returned is that of a qualifying question of the
\* highest similarity, and None is returned when no question qualifies, so
\* a question sharing exactly one meaningful word is never the match.
C14_FuzzyMatch ==
    (call.fn = "check_qna_match" /\ call.pc = "returned" /\ call.pass = "fuzzy") =>
        LET ks == {k \in 1..Len(call.qnas) : Qualifying14(k)}
        IN  /\ (ks = {}) <=> (call.result = None)
            /\ ks # {} =>
                 \E k \in ks :
                    /\ call.result = call.qnas[k].answer
                    /\ \A j \in ks : Shared(k) * Joint(j) >= Shared(j) * Joint(k)
            /\ \A k \in 1..Len(call.qnas) :
                 (Shared(k) <= 1 /\ call.result = call.qnas[k].answer) =>
                    \E j \in ks : call.qnas[j].answer = call.result

\* the pass returned the answer of the second question, which is more
\* similar than the first, itself qualifying
C14_Witness ==
    /\ call.fn = "check_qna_match"
    /\ call.pc = "returned"
    /\ call.pass = "fuzzy"
    /\ Len(call.qnas) = 2
    /\ Qualifying14(1)
    /\ Qualifying14(2)
    /\ Shared(2) * Joint(1) > Shared(1) * Joint(2)
    /\ call.result = call.qnas[2].answer
    /\ call.result # call.qnas[1].answer

\* the pass returned None although the only word of a question is the only
\* meaningful word of the message (similarity 1, one shared word)
C14_OneWord ==
    /\ call.fn = "check_qna_match"
    /\ call.pc = "returned"
    /\ call.pass = "fuzzy"
    /\ call.result = None
    /\ \E k \in 1..Len(call.qnas) : Shared(k) = 1 /\ Joint(k) = 1

(***************************************************************************)
(* Properties of chunk_text, checked under ChunkSpec.                      *)
(***************************************************************************)
ChunkReturned == call.fn = "chunk_text" /\ call.pc = "returned"

\* position p of the text (counted from 1) lies in the window of a chunk
InWindow(p) ==
    \E j \in 1..Len(call.windows) :
        call.windows[j].start < p /\ p <= Min(call.windows[j].end, Len(call.text))

\* the loop returns what the function of the model returns
ChunkAgrees ==
    ChunkReturned => call.chunks = chunk_text(call.text, ChunkSize, ChunkOverlap)

\* C15 as stated: every character of the text lies in the window of at
\* least one returned chunk, no returned chunk is empty, and no chunk is
\* longer than the chunk size.
C15_EveryCharCovered ==
    ChunkReturned =>
        /\ \A p \in 1..Len(call.text) : InWindow(p)
        /\ \A j \in 1..Len(call.chunks) :
              call.chunks[j] # <<>> /\ Len(call.chunks[j]) <= ChunkSize

\* C15, amended: every character of the text that is not white space lies
\* in the window of at least one returned chunk, and in the chunk itself;
\* no returned chunk is empty and none is longer than the chunk size.
C15_NonSpaceCovered ==
    ChunkReturned =>
        /\ Len(call.windows) = Len(call.chunks)
        /\ \A p \in 1..Len(call.text) :
              ~IsSpace(call.text[p]) =>
                 \E j \in 1..Len(call.windows) :
                    LET w == call.windows[j]
                        n == Len(call.chunks[j])
                    IN  \E a \in w.start..(p - 1) :
                            /\ p <= a + n
                            /\ a + n <= Min(w.end, Len(call.text))
                            /\ call.chunks[j] = SubSeq(call.text, a + 1, a + n)
        /\ \A j \in 1..Len(call.chunks) :
              call.chunks[j] # <<>> /\ Len(call.chunks[j]) <= ChunkSize

\* a text of several chunks, one of them cut at a sentence end, has been
\* split, and a window of white space alone was dropped on the way
C15_Witness ==
    /\ ChunkReturned
    /\ Len(call.chunks) >= 2
    /\ \E j \in 1..Len(call.windows) :
          call.windows[j].end - call.windows[j].start < ChunkSize
          /\ call.windows[j].end < Len(call.text)
    /\ \E p \in 1..Len(call.text) : ~InWindow(p)

(***************************************************************************)
(* Properties of detect_language, checked under LangSpec.                  *)
(***************************************************************************)
LangReturned == call.fn = "detect_language" /\ call.pc = "returned"
LangLower == [k \in 1..Len(call.message) |-> LowerTok(call.message[k])]
LangWords == CleanWords(LangLower)
EnglishCount == CountIn(LangWords, english_indicators)
MalayCount == CountIn(LangWords, malay_words)

\* English is returned when the English ratio is at least 0.3 and exceeds
\* the Malay ratio
C20_EnglishRule ==
    (LangReturned /\ ~HasPhrase(LangLower) /\ LangWords # <<>>
       /\ 10 * EnglishCount >= 3 * Len(LangWords) /\ EnglishCount > MalayCount)
        => call.result = "en"

\* Malay is returned only when the Malay ratio is at least 0.2
C20_MalayRule ==
    (LangReturned /\ ~HasPhrase(LangLower) /\ call.result = "ms")
        => 10 * MalayCount >= 2 * Len(LangWords)

\* English is returned for at most two tokens without a Malay word
C20_ShortRule ==
    (LangReturned /\ ~HasPhrase(LangLower) /\ Len(LangWords) <= 2 /\ MalayCount = 0)
        => call.result = "en"

\* C20: for a message with none of the Malay phrases, detect_language
\* returns 'en' when the English-indicator ratio is at least 0.3 and
\* exceeds the Malay ratio, returns 'ms' only when the Malay ratio is at
\* least 0.2, and returns 'en' for a message of at most two tokens with no
\* Malay word.
C20_DetectLanguage == C20_EnglishRule /\ C20_MalayRule /\ C20_ShortRule

(***************************************************************************)
(* Properties of the realtime voice session, checked under VoiceSpec.      *)
(***************************************************************************)
VoiceMessages ==
    IF voice.voice_session = 0 THEN <<>> ELSE sessions[voice.voice_session].messages

\* the positions at which a transcript is persisted
Persisted(by, k) ==
    {i \in 1..Len(VoiceMessages) :
        VoiceMessages[i].content.by = by /\ VoiceMessages[i].content.turn = k}

\* no event of a started turn is outstanding
Settled == HandlerFree /\ voice.resp = "none" /\ voice.pendingU = <<>>

\* C16: the user transcript and the assistant transcript of a turn are
\* persisted together at the response.done of the turn, user first; every
\* completed transcript is persisted exactly once, with its own turn,
\* whatever the order in which the transcripts and response.done arrive.
C16_ExchangePersisted ==
    /\ \A by \in {"user", "assistant"}, k \in 1..MaxTurns :
          Cardinality(Persisted(by, k)) <= 1
    /\ Settled =>
          \A k \in voice.doneTurns :
             /\ k \in voice.gotU => Persisted("user", k) # {}
             /\ k \in voice.gotA => Persisted("assistant", k) # {}
             /\ (k \in voice.gotU /\ k \in voice.gotA) =>
                   \E i \in Persisted("user", k) : i + 1 \in Persisted("assistant", k)

\* the positions of the function outputs sent for a call
Outputs(c) ==
    {i \in 1..Len(voice.sent) :
        /\ voice.sent[i].type = "function_call_output"
        /\ voice.sent[i].call_id = c}

\* C17: for a completed search_knowledge call the Q&A matcher is run first
\* and the retriever only on a miss; exactly one function_call_output is
\* sent for the call, with at most three results, and then response.create,
\* on every path, the error path included.
C17_OneOutputThenCreate ==
    \A c \in voice.handled :
        /\ Cardinality(Outputs(c)) = 1
        /\ \A i \in Outputs(c) :
              /\ i < Len(voice.sent)
              /\ voice.sent[i + 1].type = "response.create"
              /\ voice.sent[i].results <= 3
              /\ voice.sent[i].qnaCalls = 1
              /\ voice.sent[i].source = "qna" => voice.sent[i].retrieverCalls = 0
              /\ voice.sent[i].source \in {"knowledge_base", "none"} =>
                    voice.sent[i].retrieverCalls = 1

\* the part of C17 that does not depend on the sends: Q&A first, the
\* retriever only on a miss, at most three results
C17_Pipeline ==
    \A i \in 1..Len(voice.sent) :
        voice.sent[i].type = "function_call_output" =>
            /\ voice.sent[i].results <= 3
            /\ voice.sent[i].qnaCalls = 1
            /\ voice.sent[i].source = "qna" => voice.sent[i].retrieverCalls = 0
            /\ voice.sent[i].source \in {"knowledge_base", "none"} =>
                  voice.sent[i].retrieverCalls = 1

\* a response.done adds one request and the reported tokens
C18_Step ==
    (voice.resp \in {"fc_args_done", "audio_done"} /\ usage' # usage) =>
        \E n \in TokenCounts :
            /\ usage'[VoiceOwner].requests = usage[VoiceOwner].requests + 1
            /\ usage'[VoiceOwner].tokens = usage[VoiceOwner].tokens + n
            /\ usage'[VoiceOwner].logs =
                  IF n > 0 THEN Append(usage[VoiceOwner].logs, n)
                  ELSE usage[VoiceOwner].logs

\* C18: every voice turn is recorded as exactly one API request, with the
\* token count when one is reported and with zero tokens when none is: the
\* request counter grows by exactly one for each turn, turns with a
\* search_knowledge call included.
C18_OneRequestPerTurn ==
    /\ [](usage[VoiceOwner].requests = Cardinality(voice.endedTurns))
    /\ [][C18_Step]_vars

\* C19: stopping an active voice session closes the upstream stream; after
\* the stop no client audio is forwarded upstream and the session is
\* reported inactive (voice_stopped).
C19_StopCloses ==
    /\ [](voice.stopped =>
            /\ voice.sock # "open"
            /\ ~voice.is_voice_active
            /\ voice.reported = "voice_stopped")
    /\ [][voice'.forwarded > voice.forwarded => ~voice.stopped]_vars

\* the parts of C19 about the stream and the audio
C19_ClosedAndSilent ==
    /\ [](voice.stopped => voice.sock # "open")
    /\ [][voice'.forwarded > voice.forwarded => ~voice.stopped]_vars

(***************************************************************************)
(* UserProfile usage counters and the billing cycle (user.py:199-337).     *)
(* Every request or voice session works on its own UserProfile instance,   *)
(* loaded from the row (assistant.user.profile is cached on the instance   *)
(* that loaded it); save(update_fields=...) writes the named fields of the *)
(* instance to the row.  Dates are day numbers, the profile was created on *)
(* day 0.  The state of this part is held in call.                         *)
(***************************************************************************)
MaxUsageCalls == 3
MaxDay == 62
DayJump == 31
CycleDays == 30
NoDate == -1
CreatedDay == 0

\* save(update_fields=fields) of the instance self: the row after the write
SaveFields(row, self, fields) ==
    [f \in DOMAIN row |-> IF f \in fields THEN self[f] ELSE row[f]]

\* initialize_subscription_cycle (user.py:221-240): the instance afterwards
initialize_subscription_cycle(self, today) ==
    LET start == IF self.subscription_start_date = NoDate
                 THEN CreatedDay ELSE self.subscription_start_date
    IN  [self EXCEPT !.subscription_start_date = start,
                     !.billing_cycle_end = start + CycleDays,
                     !.current_month_api_requests = 0,
                     !.current_month_tokens = 0]

InitializeFields ==
    {"subscription_start_date", "billing_cycle_end",
     "current_month_api_requests", "current_month_tokens"}

\* renew_subscription (user.py:242-256)
renew_subscription(self, today) ==
    [self EXCEPT !.billing_cycle_end = @ + CycleDays,
                 !.current_month_api_requests = 0,
                 !.current_month_tokens = 0]

RenewFields ==
    {"billing_cycle_end", "current_month_api_requests", "current_month_tokens"}

\* handle_subscription_expiry (user.py:258-283): the plan fields it changes
\* are not among the saved fields; it ends in initialize_subscription_cycle
handle_subscription_expiry(self, today) == initialize_subscription_cycle(self, today)

\* the test of line 215
CycleExpired(self, today) ==
    self.billing_cycle_end # NoDate /\ today > self.billing_cycle_end

\* reset_monthly_usage_if_needed (user.py:203-219): the instance afterwards
reset_monthly_usage_if_needed(self, today) ==
    IF self.billing_cycle_end = NoDate THEN initialize_subscription_cycle(self, today)
    ELSE IF today > self.billing_cycle_end
         THEN IF self.auto_renewal THEN renew_subscription(self, today)
              ELSE handle_subscription_expiry(self, today)
         ELSE self

\* the fields its save writes (none when the cycle is running)
ResetFields(self, today) ==
    IF self.billing_cycle_end = NoDate THEN InitializeFields
    ELSE IF today > self.billing_cycle_end
         THEN IF self.auto_renewal THEN RenewFields ELSE InitializeFields
         ELSE {}

\* variant of the increments: the request is counted twice
Counted_Twice(self, token_count) ==
    [self EXCEPT !.api_requests_count = @ + 2,
                 !.current_month_api_requests = @ + 2,
                 !.tokens_used = @ + token_count,
                 !.current_month_tokens = @ + token_count]

\* the increments of record_api_usage (user.py:331-334)
Counted(self, token_count) ==
    [self EXCEPT !.api_requests_count = @ + 1,
                 !.current_month_api_requests = @ + 1,
                 !.tokens_used = @ + token_count,
                 !.current_month_tokens = @ + token_count]

RecordFields ==
    {"api_requests_count", "current_month_api_requests", "tokens_used",
     "current_month_tokens"}

NoProfile == [pk |-> 0]
UsageIdle == [pc |-> "idle", self |-> NoProfile, token_count |-> 0, found |-> "none"]

\* the row as create_user_profile leaves it (signals.py:94-106), or with the
\* first cycle already initialised; auto_renewal as the tenant has set it
UsageInit ==
    /\ \E auto \in BOOLEAN, begun \in BOOLEAN :
        call = [fn |-> "record_api_usage", today |-> 0,
                row |-> [pk |-> 1,
                         subscription_start_date |-> IF begun THEN CreatedDay ELSE NoDate,
                         billing_cycle_end |-> IF begun THEN CreatedDay + CycleDays
                                               ELSE NoDate,
                         auto_renewal |-> auto,
                         api_requests_count |-> 0, current_month_api_requests |-> 0,
                         tokens_used |-> 0, current_month_tokens |-> 0],
                req |-> [t \in Threads |-> UsageIdle],
                calls |-> 0, tokens |-> 0, serial |-> TRUE, resets |-> 0,
                lastReset |-> NoDate]
    /\ db = [pk \in Pks |-> NoRow]
    /\ nextPk = 1
    /\ emb = [pk \in Pks |-> NoFile]
    /\ upl = [pk \in Pks |-> FALSE]
    /\ thr = [t \in Threads |-> Idle]
    /\ cleaned = {}
    /\ started = 0
    /\ sessions = <<>>
    /\ usage = [a \in Assistants |-> [requests |-> 0, tokens |-> 0, logs |-> <<>>]]
    /\ voice = VoiceIdle

\* assistant.user.profile is read for the first time in a request: the row
\* is loaded.  serial records that no two instances were ever held at once.
UsageLoad(t) ==
    /\ call.req[t].pc = "idle"
    /\ call' = [call EXCEPT !.req[t] = [UsageIdle EXCEPT !.pc = "loaded",
                                                         !.self = call.row],
                            !.serial = @ /\ \A u \in Threads : call.req[u].pc = "idle"]
    /\ UNCHANGED reqVars

\* the request ends; its instance is dropped
UsageRelease(t) ==
    /\ call.req[t].pc = "loaded"
    /\ call' = [call EXCEPT !.req[t] = UsageIdle]
    /\ UNCHANGED reqVars

\* record_api_usage is called (chat_service.py:364, voice_service.py:403, 418)
UsageCall(t) ==
    /\ call.req[t].pc = "loaded"
    /\ call.calls + Cardinality({u \in Threads : call.req[u].pc \in {"reset", "count"}})
         < MaxUsageCalls
    /\ \E token_count \in TokenCounts :
        call' = [call EXCEPT !.req[t].pc = "reset",
                             !.req[t].token_count = token_count]
    /\ UNCHANGED reqVars

\* line 330: reset_monthly_usage_if_needed with its save
UsageReset(t) ==
    /\ call.req[t].pc = "reset"
    /\ LET self == call.req[t].self
           after == reset_monthly_usage_if_needed(self, call.today)
           fields == ResetFields(self, call.today)
       IN  call' = [call EXCEPT
                       !.req[t].pc = "count",
                       !.req[t].self = after,
                       !.req[t].found = IF CycleExpired(self, call.today) THEN "expired"
                                        ELSE IF fields = {} THEN "running" ELSE "unset",
                       !.row = SaveFields(@, after, fields),
                       !.resets = IF fields # {} /\ call.calls > 0 THEN @ + 1 ELSE @,
                       !.lastReset = IF fields # {} THEN call.today ELSE @]
    /\ UNCHANGED reqVars

\* lines 331-337: the increments, update_activity and the save
UsageSave(t) ==
    /\ call.req[t].pc = "count"
    /\ LET after == Counted(call.req[t].self, call.req[t].token_count)
       IN  call' = [call EXCEPT
                       !.req[t].pc = "loaded",
                       !.req[t].self = after,
                       !.row = SaveFields(@, after, RecordFields),
                       !.calls = @ + 1,
                       !.tokens = @ + call.req[t].token_count]
    /\ UNCHANGED reqVars

\* time passes
UsageTick ==
    /\ call.fn = "record_api_usage"
    /\ call.today + DayJump <= MaxDay
    /\ call' = [call EXCEPT !.today = @ + DayJump]
    /\ UNCHANGED reqVars

UsageNext ==
    \/ UsageTick
    \/ \E t \in Threads :
        /\ call.fn = "record_api_usage"
        /\ \/ UsageLoad(t) \/ UsageRelease(t) \/ UsageCall(t)
           \/ UsageReset(t) \/ UsageSave(t)

UsageSpec == UsageInit /\ [][UsageNext]_vars

(***************************************************************************)
(* One client connection (a VoiceConsumer or WidgetVoiceConsumer) with its *)
(* RealtimeVoiceService across voice sessions.  Three kinds of thread run: *)
(* the consumer's event loop (start_voice, stop_voice, audio, disconnect), *)
(* the thread of each upstream connection (on_message, on_close), and one  *)
(* sender thread per outbound message (safe_send_to_consumer).  They share *)
(* the attributes websocket and django_consumer of the service and the     *)
(* flag is_disconnected of the consumer, none of them under a lock.  The   *)
(* state of this part is held in call.                                     *)
(***************************************************************************)
MaxConns == 2
MaxEvents == 3
Conns == 1..MaxConns
Events == 1..MaxEvents

\* the events an upstream connection delivers, in order: two forwarded
\* events (response.audio.delta), then response.done
EventKind(k) == IF k < MaxEvents THEN "delta" ELSE "done"

NoSender == "none"

ClientInit ==
    /\ \E flagged \in BOOLEAN :
        call = [fn |-> "voice_client",
                \* VoiceConsumer has is_disconnected, WidgetVoiceConsumer has not
                has_flag |-> flagged,
                is_disconnected |-> FALSE,
                disconnect |-> "none",
                is_voice_active |-> FALSE,
                websocket |-> 0,
                django_consumer |-> "none",
                conns |-> 0,
                sock |-> [n \in Conns |-> "none"],
                recv |-> [n \in Conns |-> 0],
                sender |-> [n \in Conns |-> [k \in Events |-> NoSender]],
                client |-> <<>>,
                persisted |-> <<>>]
    /\ db = [pk \in Pks |-> NoRow]
    /\ nextPk = 1
    /\ emb = [pk \in Pks |-> NoFile]
    /\ upl = [pk \in Pks |-> FALSE]
    /\ thr = [t \in Threads |-> Idle]
    /\ cleaned = {}
    /\ started = 0
    /\ sessions = <<>>
    /\ usage = [a \in Assistants |-> [requests |-> 0, tokens |-> 0, logs |-> <<>>]]
    /\ voice = VoiceIdle

\* the consumer has been marked disconnected: flag set or reference cleared
MarkedDisconnected == call.disconnect # "none"

\* start_voice_session (consumers.py:87-157) with a successful
\* create_server_websocket_connection (voice_service.py:161-195, 513-529)
ClientStart ==
    /\ call.disconnect = "none"
    /\ ~call.is_voice_active
    /\ call.conns < MaxConns
    /\ call' = [call EXCEPT !.conns = @ + 1,
                            !.django_consumer = "consumer",
                            !.websocket = call.conns + 1,
                            !.sock[call.conns + 1] = "open",
                            !.is_voice_active = TRUE]
    /\ UNCHANGED reqVars

\* stop_voice_session (consumers.py:159-179): close() of the stream the
\* service holds; its on_close runs later in the stream's own thread
ClientStop ==
    /\ call.disconnect = "none"
    /\ call.is_voice_active
    /\ call' = [call EXCEPT
                   !.sock = IF call.websocket # 0 /\ call.sock[call.websocket] = "open"
                            THEN [@ EXCEPT ![call.websocket] = "closing"] ELSE @,
                   !.is_voice_active = FALSE]
    /\ UNCHANGED reqVars

\* the upstream side ends the stream
ClientUpstreamClose(n) ==
    /\ call.fn = "voice_client"
    /\ call.sock[n] = "open"
    /\ call' = [call EXCEPT !.sock[n] = "closing"]
    /\ UNCHANGED reqVars

\* on_close of connection n (voice_service.py:504-512), in its thread
ClientOnClose(n) ==
    /\ call.fn = "voice_client"
    /\ call.sock[n] = "closing"
    /\ call' = [call EXCEPT !.sock[n] = "closed",
                            !.websocket = 0,
                            !.django_consumer = "none"]
    /\ UNCHANGED reqVars

\* the first test of safe_send_to_consumer (lines 94-100)
ConsumerLive ==
    /\ call.django_consumer # "none"
    /\ ~(call.has_flag /\ call.is_disconnected)

\* on_message of connection n for its next event (voice_service.py:325-422):
\* a forwarded event starts a sender thread when the consumer passes the
\* test; response.done saves the turn and records the usage
ClientOnMessage(n) ==
    /\ call.fn = "voice_client"
    /\ call.sock[n] = "open"
    /\ call.recv[n] < MaxEvents
    /\ LET k == call.recv[n] + 1
       IN  IF EventKind(k) = "delta"
           THEN call' = [call EXCEPT
                            !.recv[n] = k,
                            !.sender[n][k] = IF ConsumerLive THEN "started" ELSE "skipped"]
           ELSE call' = [call EXCEPT
                            !.recv[n] = k,
                            !.persisted = Append(@, [conn |-> n,
                                                     disconnected |-> call.disconnect = "done"])]
    /\ UNCHANGED reqVars

\* send_message in the sender thread of event k of connection n: the second
\* test (lines 108-121)
SenderCheck(n, k) ==
    /\ call.fn = "voice_client"
    /\ call.sender[n][k] = "started"
    /\ call' = [call EXCEPT !.sender[n][k] = IF ConsumerLive THEN "checked" ELSE "aborted"]
    /\ UNCHANGED reqVars

\* line 127: self.django_consumer.send(...) is evaluated; a cleared
\* reference raises, which line 132 catches
SenderBind(n, k) ==
    /\ call.fn = "voice_client"
    /\ call.sender[n][k] = "checked"
    /\ call' = [call EXCEPT !.sender[n][k] = IF call.django_consumer # "none"
                                             THEN "bound" ELSE "failed"]
    /\ UNCHANGED reqVars

\* lines 123-130: the send runs in a new event loop; it can raise, which
\* ends the sender thread only
SenderSend(n, k) ==
    /\ call.fn = "voice_client"
    /\ call.sender[n][k] = "bound"
    /\ \E ok \in BOOLEAN :
        call' = [call EXCEPT
                    !.sender[n][k] = IF ok THEN "sent" ELSE "failed",
                    !.client = IF ok THEN Append(@, [conn |-> n, event |-> k,
                                                     marked |-> MarkedDisconnected])
                               ELSE @]
    /\ UNCHANGED reqVars

\* disconnect (consumers.py:51-61, 313-318), first statement: the flag
\* (VoiceConsumer only; openai_websocket is always None, nothing is closed)
DisconnectFlag ==
    /\ call.fn = "voice_client"
    /\ call.disconnect = "none"
    /\ call' = [call EXCEPT !.disconnect = "flagged",
                            !.is_disconnected = call.has_flag]
    /\ UNCHANGED reqVars

\* disconnect, last statement: the reference held by the service is cleared
DisconnectClear ==
    /\ call.fn = "voice_client"
    /\ call.disconnect = "flagged"
    /\ call' = [call EXCEPT !.disconnect = "done",
                            !.django_consumer = IF call.conns > 0 THEN "none" ELSE @,
                            !.is_voice_active = IF call.has_flag THEN @ ELSE FALSE]
    /\ UNCHANGED reqVars

ClientNext ==
    \/ (call.fn = "voice_client" /\ ClientStart)
    \/ (call.fn = "voice_client" /\ ClientStop)
    \/ DisconnectFlag
    \/ DisconnectClear
    \/ \E n \in Conns :
        \/ ClientUpstreamClose(n)
        \/ ClientOnClose(n)
        \/ ClientOnMessage(n)
        \/ \E k \in Events : SenderCheck(n, k) \/ SenderBind(n, k) \/ SenderSend(n, k)

ClientSpec == ClientInit /\ [][ClientNext]_vars

(***************************************************************************)
(* Claims about the save signals of KnowledgeBase (specification Spec)     *)
(***************************************************************************)
\* the comparison of knowledge_base_pre_save (signals.py:22-23) for the
\* instance of worker t against the row stored at that moment
C21_Differs(t) ==
    LET i == thr[t].inst
    IN  \/ ~Exists(i.pk)
        \/ db[i.pk].content # i.content
        \/ db[i.pk].file # i.file

\* worker t moves from position a to position b
C21_Moves(t, a, b) == thr[t].pc = a /\ thr'[t].pc = b

C21_SaveStep(t) ==
    \* pre_save flags the instance only when it differs from the stored row
    /\ C21_Moves(t, "pre_save", "save_write")
         => (thr'[t].inst.flag <=> C21_Differs(t))
    /\ (C21_Moves(t, "pre_save", "save_write") /\ ~C21_Differs(t)) => emb' = emb
    \* post_save resets and schedules only for a created or flagged instance
    /\ (thr[t].pc = "post_save" /\ thr'[t].pc # "post_save")
         => IF thr[t].created \/ thr[t].inst.flag
            THEN thr'[t].pc = "async_load"
            ELSE db' = db /\ thr'[t].pc # "async_load"
    /\ (thr'[t].pc = "async_load" /\ thr[t].pc # "async_load")
         => thr[t].pc = "post_save"
    \* the save of an edit runs generation once: from the scheduled load only
    /\ thr[t].op = "edit"
         => /\ (thr'[t].pc = "gen_start" /\ thr[t].pc # "gen_start")
                 => thr[t].pc = "async_load"
            /\ (thr'[t].pc = "post_save" /\ thr[t].pc # "post_save")
                 => thr[t].pc = "save_write"
            /\ (thr'[t].pc = "save_write" /\ thr[t].pc # "save_write")
                 => thr[t].pc = "pre_save"
            /\ thr'[t].pc # "pre_save" \/ thr[t].pc = "pre_save"

\* C21: a save whose content and file equal the stored row schedules no
\* regeneration and resets nothing; regeneration is scheduled only for a
\* created instance or one whose content or file differed from the stored row
\* when pre_save compared them, and the save of an edit runs generation once.
C21_RegenerationOnlyOnChange ==
    /\ [](\A t \in Threads : thr[t].pc = "pre_save" => ~thr[t].inst.flag)
    /\ [][\A t \in Threads : C21_SaveStep(t)]_vars

\* an unchanged save (the one of refresh_embeddings_for_item) has passed
\* post_save without scheduling, while an edit has run its one generation
C21_Witness ==
    \E t, u \in Threads :
        /\ thr[t].op = "search" /\ thr[t].pc = "gen_start"
        /\ thr[t].gen = "direct" /\ ~thr[t].inst.flag /\ ~thr[t].created
        /\ thr[u].op = "edit" /\ thr[u].pc = "done"
        /\ Exists(thr[t].ginst.pk) /\ db[thr[t].ginst.pk].status = "completed"

C24_StartAdvances ==
    [][(call.pc = "loop" /\ call' # call) => call'.start > call.start]_vars

\* a call whose overlap is smaller than the least advance of the window end
\* (chunk_size less the look-back) has returned several chunks
C24_Witness ==
    /\ call.pc = "returned"
    /\ call.overlap < call.size - Min(LookBackCap, call.size \div 4)
    /\ Len(call.chunks) >= 2

(***************************************************************************)
(* The empty result of find_relevant_knowledge (specification Spec)        *)
(***************************************************************************)
\* worker t returns from find_relevant_knowledge with an empty list
C25_ReturnsEmpty(t) ==
    /\ thr[t].op \in {"search", "chat"}
    /\ thr[t].pc \in {"fr_embed", "fr_scan", "refresh_next"}
    /\ thr'[t].pc \in {"done", "pm_reply"}
    /\ thr'[t].results = <<>>

C26_Broken(pk) ==
    /\ Exists(pk)
    /\ db[pk].status = "completed"
    /\ \/ db[pk].path = NoPath
       \/ ~FileExists(db[pk].path)
       \/ db[pk].count # Len(emb[db[pk].path].chunks)

\* no request is under way
C26_Quiescent == \A t \in Threads : thr[t].pc \in {"idle", "done", "raised"}

\* C26: every stored item with status completed has a non-empty
\* embedding_file_path naming an existing embedding file, and its
\* chunks_count is the number of chunks in that file
C26_CompletedHasFile == \A pk \in Pks : ~C26_Broken(pk)

\* the same, required only when no request is under way
C26_CompletedHasFileAtRest == C26_Quiescent => C26_CompletedHasFile

(***************************************************************************)
(* Usage counters and the billing cycle (specification UsageSpec)          *)
(***************************************************************************)
\* the stored cycle counters are not above the calls made
C23_NeverHigher ==
    /\ call.row.current_month_api_requests <= call.calls
    /\ call.row.current_month_tokens <= call.tokens

\* no two instances were held at once and no reset came after a call
C23_OneCycleSerial == call.serial /\ call.resets = 0

C23_SerialCounted ==
    /\ C23_OneCycleSerial
    /\ call.calls = MaxUsageCalls /\ call.tokens > 0
    /\ call.row.current_month_api_requests = MaxUsageCalls

\* C30: a reset_monthly_usage_if_needed that found the cycle expired leaves
\* billing_cycle_end no longer in the past
C30_ResetEndsInFuture ==
    [][\A t \in Threads :
          (/\ call.req[t].pc = "reset"
           /\ call'.req[t].pc = "count"
           /\ CycleExpired(call.req[t].self, call.today))
          => call'.req[t].self.billing_cycle_end >= call.today]_vars

\* C30 (consequence): with instances never held at the same time, the
\* counters are reset at most once on one day
C30_OneResetPerDay ==
    [][\A t \in Threads :
          (/\ call.serial
           /\ call.req[t].pc = "reset"
           /\ call'.req[t].pc = "count"
           /\ CycleExpired(call.req[t].self, call.today))
          => call.lastReset # call.today]_vars

(***************************************************************************)
(* The client connection of a voice session (specification ClientSpec)     *)
(***************************************************************************)
\* C22: no send to the client is performed once the consumer has been marked
\* disconnected (flag set or reference cleared), whatever the interleaving of
\* disconnect with the sender threads
C22_NoSendAfterDisconnect ==
    \A i \in 1..Len(call.client) : ~call.client[i].marked

\* C27: while the latest voice session is active and its stream open, the
\* service's websocket and consumer references are those of that session
C27_SessionKeepsReferences ==
    (/\ call.conns > 0
     /\ call.is_voice_active
     /\ call.disconnect = "none"
     /\ call.sock[call.conns] = "open")
    => /\ call.websocket = call.conns
       /\ call.django_consumer = "consumer"

\* C28: the client receives the forwarded events of a session in the order
\* in which on_message received them
C28_InOrder ==
    \A i, j \in 1..Len(call.client) :
        (i < j /\ call.client[i].conn = call.client[j].conn)
        => call.client[i].event < call.client[j].event

\* C29: no turn is saved or recorded as usage after the client has
\* disconnected
C29_NoTurnAfterDisconnect ==
    \A i \in 1..Len(call.persisted) : ~call.persisted[i].disconnected

====
